---- MODULE Spec2Model ----
(***************************************************************************)
(* BrightSync: the monitor hardware-abstraction layer (native addon with   *)
(* real and mock monitors), the MonitorManager enumeration cache and the   *)
(* BrightnessController synchronisation / transition engine.               *)
(*                                                                         *)
(* The JavaScript side runs on one event loop: a call runs synchronously   *)
(* up to its first await, every await resumes through the FIFO microtask   *)
(* queue, sleep() resumes through the timer queue (all delays are equal,   *)
(* so timers fire in registration order) and a new external request can    *)
(* start only when the microtask queue has drained.                        *)
(***************************************************************************)
EXTENDS Integers, Sequences, FiniteSets, TLC

(***************************************************************************)
(* Program constants                                                       *)
(***************************************************************************)
BRIGHTNESS_MIN == 0
BRIGHTNESS_MAX == 100
STEP_SIZE == 2
CACHE_TIMEOUT_MS == 500
cacheTimeout == 500
MockInitialBrightness == 50
RealDefaultBrightness == 50
RealMinBrightness == 0
RealMaxBrightness == 100

(***************************************************************************)
(* Bounds of the model                                                     *)
(***************************************************************************)
StartTime == 1000      \* clock value when the MonitorManager is constructed
TickMs == 250          \* granularity of the clock
MaxTicks == 3          \* the clock stops after this many ticks
MaxCalls == 2          \* engine calls issued in one behaviour
MaxPolls == 2          \* getMonitors requests issued in one behaviour
MaxFaults == 1         \* hardware fault flips in one behaviour
MaxInits == 2          \* Initialize calls in one behaviour
MaxSteps == 2          \* longest stepped transition that is followed

(***************************************************************************)
(* Helpers                                                                 *)
(***************************************************************************)
Max(a, b) == IF a > b THEN a ELSE b
Min(a, b) == IF a < b THEN a ELSE b
Abs(a) == IF a < 0 THEN -a ELSE a

\* index of the first element of s whose id is id, 0 when there is none
\* (the linear searches of part_006 and Array.prototype.find)
FindIdx(s, id) ==
  IF \E i \in 1..Len(s) : s[i].id = id
  THEN CHOOSE i \in 1..Len(s) : s[i].id = id /\ \A j \in 1..(i-1) : s[j].id # id
  ELSE 0

(***************************************************************************)
(* Native layer: devices                                                   *)
(* A device object is a record; out is the OS display output a real        *)
(* monitor drives (0 for a mock monitor); epoch is the number of           *)
(* Initialize calls that had happened when the object was created and      *)
(* probed whether the live read made while it was created succeeded.       *)
(* The hardware is hw: output index -> [level, ok]; ok says whether a      *)
(* live read or write of that output currently succeeds.                   *)
(***************************************************************************)
MockMonitor(id, type, initialBrightness, epoch) ==
  [id |-> id, type |-> type, mock |-> TRUE, out |-> 0,
   wmi |-> FALSE, ddc |-> FALSE,
   min |-> 0, max |-> 100,
   cur |-> Max(0, Min(100, initialBrightness)),
   epoch |-> epoch, probed |-> TRUE]

IsControllable(d) ==
  IF d.mock THEN TRUE
  ELSE (d.type = "internal" /\ d.wmi) \/ (d.type = "external" /\ d.ddc)

\* a faulty variant of GetBrightness: a failed live read is reported as -1
DevGetBrightnessSentinel(d, hw) ==
  IF d.mock THEN [ret |-> d.cur, dev |-> d]
  ELSE IF IsControllable(d) /\ hw[d.out].ok
       THEN [ret |-> hw[d.out].level, dev |-> [d EXCEPT !.cur = hw[d.out].level]]
       ELSE [ret |-> -1, dev |-> d]

\* IMonitor::GetBrightness: the value returned and the device afterwards
\* (RealMonitor caches a successful live read in m_currentBrightness)
DevGetBrightness(d, hw) ==
  IF d.mock THEN [ret |-> d.cur, dev |-> d]
  ELSE IF IsControllable(d) /\ hw[d.out].ok
       THEN [ret |-> hw[d.out].level, dev |-> [d EXCEPT !.cur = hw[d.out].level]]
       ELSE [ret |-> d.cur, dev |-> d]

\* a faulty variant of SetBrightness: the value is recorded before the
\* hardware has accepted it
DevSetBrightnessOptimistic(d, value, hw) ==
  IF d.mock \/ (IsControllable(d) /\ hw[d.out].ok)
  THEN [ret |-> TRUE, dev |-> [d EXCEPT !.cur = Max(d.min, Min(d.max, value))],
        hw |-> IF d.mock THEN hw
               ELSE [hw EXCEPT ![d.out].level = Max(d.min, Min(d.max, value))]]
  ELSE [ret |-> FALSE, dev |-> [d EXCEPT !.cur = Max(d.min, Min(d.max, value))], hw |-> hw]

\* a faulty variant of SetBrightness: protocol support is not looked at
DevSetBrightnessUnchecked(d, value, hw) ==
  IF d.mock \/ hw[d.out].ok
  THEN [ret |-> TRUE, dev |-> [d EXCEPT !.cur = Max(d.min, Min(d.max, value))],
        hw |-> IF d.mock THEN hw
               ELSE [hw EXCEPT ![d.out].level = Max(d.min, Min(d.max, value))]]
  ELSE [ret |-> FALSE, dev |-> d, hw |-> hw]

\* a faulty variant of SetBrightness: a value the device already has is refused
DevSetBrightnessRejectsSame(d, value, hw) ==
  LET clamped == Max(d.min, Min(d.max, value)) IN
  IF clamped = d.cur
  THEN [ret |-> FALSE, dev |-> d, hw |-> hw]
  ELSE IF d.mock
       THEN [ret |-> TRUE, dev |-> [d EXCEPT !.cur = clamped], hw |-> hw]
       ELSE IF IsControllable(d) /\ hw[d.out].ok
            THEN [ret |-> TRUE, dev |-> [d EXCEPT !.cur = clamped],
                  hw |-> [hw EXCEPT ![d.out].level = clamped]]
            ELSE [ret |-> FALSE, dev |-> d, hw |-> hw]

\* a faulty variant of SetBrightness: the value is stored as given
DevSetBrightnessUnclamped(d, value, hw) ==
  IF d.mock
  THEN [ret |-> TRUE, dev |-> [d EXCEPT !.cur = value], hw |-> hw]
  ELSE IF IsControllable(d) /\ hw[d.out].ok
       THEN [ret |-> TRUE, dev |-> [d EXCEPT !.cur = value],
             hw |-> [hw EXCEPT ![d.out].level = value]]
       ELSE [ret |-> FALSE, dev |-> d, hw |-> hw]

\* IMonitor::SetBrightness: result, device afterwards, hardware afterwards
DevSetBrightness(d, value, hw) ==
  LET clamped == Max(d.min, Min(d.max, value)) IN
  IF d.mock
  THEN [ret |-> TRUE, dev |-> [d EXCEPT !.cur = clamped], hw |-> hw]
  ELSE IF IsControllable(d) /\ hw[d.out].ok
       THEN [ret |-> TRUE, dev |-> [d EXCEPT !.cur = clamped],
             hw |-> [hw EXCEPT ![d.out].level = clamped]]
       ELSE [ret |-> FALSE, dev |-> d, hw |-> hw]

\* the constructor's live read: if (b >= 0) m_currentBrightness = b
RealMonitorRead(r) == IF r.ret >= 0 THEN [r.dev EXCEPT !.cur = r.ret] ELSE r.dev

RealMonitor(id, type, out, wmi, ddc, hw, epoch) ==
  RealMonitorRead(
    DevGetBrightness([id |-> id, type |-> type, mock |-> FALSE, out |-> out,
                      wmi |-> wmi, ddc |-> ddc,
                      min |-> RealMinBrightness, max |-> RealMaxBrightness,
                      cur |-> RealDefaultBrightness, epoch |-> epoch,
                      probed |-> hw[out].ok], hw))

(***************************************************************************)
(* Native layer: factory                                                   *)
(***************************************************************************)
\* a faulty variant of the simulated set-up: both externals get the index 0
CreateMockMonitorsSameIndex(epoch) ==
  << MockMonitor("mock_internal_0", "internal", MockInitialBrightness, epoch),
     MockMonitor("mock_external_0", "external", MockInitialBrightness, epoch),
     MockMonitor("mock_external_0", "external", MockInitialBrightness, epoch) >>

\* a faulty variant of the simulated set-up: an external display comes first
CreateMockMonitorsExternalFirst(epoch) ==
  << MockMonitor("mock_external_0", "external", MockInitialBrightness, epoch),
     MockMonitor("mock_internal_0", "internal", MockInitialBrightness, epoch),
     MockMonitor("mock_external_1", "external", MockInitialBrightness, epoch) >>

CreateMockMonitors(epoch) ==
  << MockMonitor("mock_internal_0", "internal", MockInitialBrightness, epoch),
     MockMonitor("mock_external_0", "external", MockInitialBrightness, epoch),
     MockMonitor("mock_external_1", "external", MockInitialBrightness, epoch) >>

\* "monitor_" + hex(handle) + "_" + index
GenerateMonitorId(handle, index) ==
  IF handle = 1
  THEN (IF index = 0 THEN "monitor_00000001_0" ELSE "monitor_00000001_1")
  ELSE (IF index = 0 THEN "monitor_00000002_0" ELSE "monitor_00000002_1")

GetInternalBrightnessForInit(out, hw, epoch) ==
  DevGetBrightness(RealMonitor("temp", "internal", out, TRUE, FALSE, hw, epoch), hw).ret

GetExternalBrightnessForInit(out, hw, epoch) ==
  DevGetBrightness(RealMonitor("temp", "external", out, FALSE, TRUE, hw, epoch), hw).ret

\* number of external outputs among the first n
ExternalCount(outputs, n) == Cardinality({j \in 1..n : ~outputs[j].internal})

\* what MonitorEnumProc pushes for output i
MonitorEnumProc(outputs, i, hw, epoch) ==
  IF outputs[i].internal
  THEN RealMonitor("internal_0", "internal", i, TRUE, FALSE, hw, epoch)
  ELSE LET supportsDDC == GetExternalBrightnessForInit(i, hw, epoch) >= 0 IN
       RealMonitor(GenerateMonitorId(outputs[i].handle, ExternalCount(outputs, i - 1)),
                   "external", i, FALSE, supportsDDC, hw, epoch)

CreateRealMonitors(outputs, hw, epoch) ==
  [i \in 1..Len(outputs) |-> MonitorEnumProc(outputs, i, hw, epoch)]

CreateMonitors(useMock, outputs, hw, epoch) ==
  IF useMock THEN CreateMockMonitors(epoch) ELSE CreateRealMonitors(outputs, hw, epoch)

(***************************************************************************)
(* A world w is the record of every variable below that the addon and the  *)
(* MonitorManager read or write; the operators of the two layers map a      *)
(* world to the world after the call together with the call's result.      *)
(***************************************************************************)

\* ---- native addon (N-API entry points) ----
\* the tick count never runs backwards and never wraps within the clock
\* range of the model, so the unsigned DWORD difference is the plain one
CacheStale(w) ==
  Len(w.g_monitorCache) = 0 \/ (w.now - w.g_lastCacheUpdate) > CACHE_TIMEOUT_MS

RefreshMonitorCache(w) ==
  IF CacheStale(w)
  THEN [w EXCEPT !.g_monitorCache = CreateMonitors(w.g_mockMode, w.outputs, w.hw, w.initCount),
                 !.g_lastCacheUpdate = w.now]
  ELSE w

\* the device list after reading every monitor in turn
ReadAll(cache, hw) == [i \in 1..Len(cache) |-> DevGetBrightness(cache[i], hw).dev]

MonitorToObject(d, hw) ==
  [id |-> d.id, type |-> d.type, min |-> d.min, max |-> d.max,
   current |-> DevGetBrightness(d, hw).ret]

\* the entry points below first call RefreshMonitorCache; the operators named
\* ...Cached are their bodies from there on, w1 the world after the refresh
GetMonitorsCached(w1) ==
  [w |-> [w1 EXCEPT !.g_monitorCache = ReadAll(w1.g_monitorCache, w1.hw)],
   ret |-> [i \in 1..Len(w1.g_monitorCache) |-> MonitorToObject(w1.g_monitorCache[i], w1.hw)],
   threw |-> FALSE]

NativeGetMonitors(w) == GetMonitorsCached(RefreshMonitorCache(w))

GetBrightnessCached(w1, monitorId) ==
  LET i == FindIdx(w1.g_monitorCache, monitorId) IN
  IF i = 0
  THEN [w |-> w1, ret |-> -1, threw |-> TRUE]
  ELSE LET r == DevGetBrightness(w1.g_monitorCache[i], w1.hw) IN
       [w |-> [w1 EXCEPT !.g_monitorCache[i] = r.dev], ret |-> r.ret, threw |-> FALSE]

NativeGetBrightness(w, monitorId) == GetBrightnessCached(RefreshMonitorCache(w), monitorId)

\* lastSet remembers the last write: the id, whether the device reported
\* success, and whether the device object and the hardware were left as the
\* write found them (cacheSame is filled in by the MonitorManager)
SetBrightnessCached(w1, monitorId, brightness) ==
  LET i == FindIdx(w1.g_monitorCache, monitorId) IN
  IF i = 0
  THEN [w |-> [w1 EXCEPT !.lastSet = [valid |-> TRUE, id |-> monitorId, ok |-> FALSE,
                                      devSame |-> TRUE, cacheSame |-> TRUE]],
        ret |-> FALSE, threw |-> TRUE]
  ELSE LET r == DevSetBrightness(w1.g_monitorCache[i], brightness, w1.hw) IN
       [w |-> [w1 EXCEPT !.g_monitorCache[i] = r.dev, !.hw = r.hw,
                         !.lastSet = [valid |-> TRUE, id |-> monitorId, ok |-> r.ret,
                                      devSame |-> r.dev = w1.g_monitorCache[i] /\ r.hw = w1.hw,
                                      cacheSame |-> TRUE]],
        ret |-> r.ret, threw |-> FALSE]

NativeSetBrightness(w, monitorId, value) ==
  SetBrightnessCached(RefreshMonitorCache(w), monitorId,
                      IF value < 0 THEN 0 ELSE IF value > 100 THEN 100 ELSE value)

\* a faulty variant of Initialize: the monitor cache is not invalidated
NativeInitializeKeepsCache(w, config) ==
  [w |-> [w EXCEPT !.g_mockMode = IF config.has THEN config.val ELSE w.g_mockMode,
                   !.initCount = w.initCount + 1],
   ret |-> TRUE, threw |-> FALSE]

\* config = [has |-> the config object carries a boolean mockMode, val |-> its value]
NativeInitialize(w, config) ==
  [w |-> [w EXCEPT !.g_mockMode = IF config.has THEN config.val ELSE w.g_mockMode,
                   !.g_monitorCache = << >>,
                   !.g_lastCacheUpdate = 0,
                   !.initCount = w.initCount + 1],
   ret |-> TRUE, threw |-> FALSE]

\* ---- the jest double of the addon used by the engine's test suites ----
\* getMonitors returns the mockMonitors array itself, so the array the
\* MonitorManager caches and the double's device list are one object
DoubleGetMonitors(w) == [w |-> w, ret |-> w.monitors, threw |-> FALSE]

DoubleGetBrightness(w, id) ==
  LET i == FindIdx(w.monitors, id) IN
  [w |-> w, ret |-> IF i = 0 THEN -1 ELSE w.monitors[i].current, threw |-> FALSE]

DoubleSetBrightness(w, id, value) ==
  LET i == FindIdx(w.monitors, id) IN
  IF i = 0 \/ id \in w.doubleFails
  THEN [w |-> [w EXCEPT !.lastSet = [valid |-> TRUE, id |-> id, ok |-> FALSE,
                                     devSame |-> TRUE, cacheSame |-> TRUE]],
        ret |-> FALSE, threw |-> FALSE]
  ELSE [w |-> [w EXCEPT !.monitors[i].current =
                  Max(w.monitors[i].min, Min(w.monitors[i].max, value)),
                        !.lastSet = [valid |-> TRUE, id |-> id, ok |-> TRUE,
                                     devSame |-> FALSE, cacheSame |-> TRUE]],
        ret |-> TRUE, threw |-> FALSE]

\* ---- NativeBrightnessAddon: whichever implementation is loaded ----
\* getMonitors throws when the enumeration fails inside the addon
AddonGetMonitors(w) ==
  IF w.enumThrows THEN [w |-> w, ret |-> << >>, threw |-> TRUE]
  ELSE IF w.addon = "native" THEN NativeGetMonitors(w) ELSE DoubleGetMonitors(w)
AddonGetBrightness(w, id) ==
  IF w.addon = "native" THEN NativeGetBrightness(w, id) ELSE DoubleGetBrightness(w, id)
AddonSetBrightness(w, id, value) ==
  IF w.addon = "native" THEN NativeSetBrightness(w, id, value) ELSE DoubleSetBrightness(w, id, value)

(***************************************************************************)
(* MonitorManager                                                          *)
(***************************************************************************)
\* the operators named ...Result are the bodies of the manager's methods
\* from the return of the addon call on, r what the addon call produced
\* a faulty variant of the error path: the cached list is dropped
refreshMonitorsForgets(r) ==
  IF r.threw THEN [w |-> [r.w EXCEPT !.monitors = << >>], ret |-> << >>, threw |-> TRUE]
  ELSE [w |-> [r.w EXCEPT !.monitors = r.ret, !.lastUpdate = r.w.now],
        ret |-> r.ret, threw |-> FALSE]

refreshMonitorsResult(r) ==
  IF r.threw THEN [w |-> r.w, ret |-> << >>, threw |-> TRUE]
  ELSE [w |-> [r.w EXCEPT !.monitors = r.ret, !.lastUpdate = r.w.now],
        ret |-> r.ret, threw |-> FALSE]

refreshMonitors(w) ==
  refreshMonitorsResult(AddonGetMonitors([w EXCEPT !.enumCalls = w.enumCalls + 1]))

\* a faulty variant of the cache test: a cache exactly as old as the timeout
\* still counts as fresh
UseCachedInclusive(w, forceRefresh) ==
  ~forceRefresh /\ Len(w.monitors) > 0 /\ w.now - w.lastUpdate <= cacheTimeout

UseCached(w, forceRefresh) ==
  ~forceRefresh /\ Len(w.monitors) > 0 /\ w.now - w.lastUpdate < cacheTimeout

getMonitors(w, forceRefresh) ==
  IF UseCached(w, forceRefresh)
  THEN [w |-> w, ret |-> w.monitors, threw |-> FALSE]
  ELSE refreshMonitors(w)

getBrightnessResult(r) ==
  IF r.threw \/ r.ret < 0
  THEN [w |-> r.w, ret |-> -1, threw |-> TRUE]
  ELSE [w |-> r.w, ret |-> r.ret, threw |-> FALSE]

getBrightness(w, monitorId) == getBrightnessResult(AddonGetBrightness(w, monitorId))

setBrightnessResult(w, monitorId, clampedValue, r) ==
  LET i == FindIdx(r.w.monitors, monitorId)
      w2 == IF r.threw \/ ~r.ret \/ i = 0 THEN r.w
            ELSE [r.w EXCEPT !.monitors[i].current = clampedValue]
  IN [w |-> [w2 EXCEPT !.lastSet.cacheSame = (w2.monitors = w.monitors)],
      ret |-> ~r.threw /\ r.ret, threw |-> FALSE]

\* value is an integer in every call of the engine, so Math.round is the identity
setBrightness(w, monitorId, value) ==
  setBrightnessResult(w, monitorId, Max(0, Min(100, value)),
                      AddonSetBrightness(w, monitorId, Max(0, Min(100, value))))

(***************************************************************************)
(* BrightnessController: arithmetic                                        *)
(* The controller computes in IEEE doubles.  Math.round rounds a half      *)
(* towards +infinity, so on exact values Math.round(n / d) is              *)
(* (2n + d) \div 2d; the two tables list the inputs in 0..100 on which the *)
(* double arithmetic lands just below a half and rounds one lower.         *)
(***************************************************************************)
RoundHalfUp(n, d) == (2 * n + d) \div (2 * d)

ClampTarget(targetValue) == Max(BRIGHTNESS_MIN, Min(BRIGHTNESS_MAX, targetValue))

PercentageRoundsDown ==
  { <<0, 25, 58>>, <<0, 45, 70>>, <<0, 50, 29>>, <<0, 50, 57>>, <<0, 75, 82>>,
    <<0, 85, 70>>, <<0, 90, 35>>, <<1, 26, 58>>, <<1, 51, 29>>, <<1, 51, 57>>,
    <<1, 76, 82>>, <<1, 86, 70>>, <<2, 52, 57>>, <<2, 77, 82>>, <<2, 87, 70>>,
    <<3, 53, 57>>, <<3, 88, 70>>, <<4, 89, 70>> }

\* a faulty variant of the mapping: the master value is not scaled to the range
calculateAbsoluteBrightness(masterBrightness, monitor) ==
  Max(monitor.min, Min(monitor.max, masterBrightness))

calculateProportionalBrightness(masterBrightness, monitor) ==
  LET exact == RoundHalfUp(monitor.min * BRIGHTNESS_MAX
                           + (monitor.max - monitor.min) * masterBrightness,
                           BRIGHTNESS_MAX)
      target == IF <<monitor.min, monitor.max, masterBrightness>> \in PercentageRoundsDown
                THEN exact - 1 ELSE exact
  IN Max(monitor.min, Min(monitor.max, target))

\* a faulty variant of the step count: the quotient is rounded down
StepCountFloor(difference) == Abs(difference) \div STEP_SIZE

\* Math.ceil(Math.abs(difference) / STEP_SIZE)
StepCount(difference) == (Abs(difference) + STEP_SIZE - 1) \div STEP_SIZE

\* start values for which the running sum current += stepValue falls just
\* below the half it reaches exactly in the middle of the transition
StepRoundsDown(difference) ==
  CASE
       difference = -99 -> (99..100)
    [] difference = -95 -> (95..100)
    [] difference = -91 -> (91..100)
    [] difference = -87 -> (87..100)
    [] difference = -83 -> (83..100)
    [] difference = -71 -> (71..100)
    [] difference = -59 -> (59..100)
    [] difference = -55 -> (55..67)
    [] difference = -51 -> (72..100)
    [] difference = -47 -> (47..71)
    [] difference = -39 -> (39..100)
    [] difference = -27 -> (40..100)
    [] difference = -23 -> (23..35) \cup (70..100)
    [] difference = -19 -> (68..100)
    [] difference = -11 -> (12..17) \cup (36..65)
    [] difference = 11 -> (1..2) \cup (15..26) \cup (63..89)
    [] difference = 19 -> (11..54)
    [] difference = 23 -> (3..4) \cup (27..54)
    [] difference = 27 -> (7..22)
    [] difference = 35 -> (3..65)
    [] difference = 39 -> (0..14)
    [] difference = 43 -> (1..57)
    [] difference = 47 -> (0..12) \cup (51..53)
    [] difference = 51 -> (0..42)
    [] difference = 55 -> (43..45)
    [] difference = 59 -> (0..12)
    [] difference = 67 -> (0..33)
    [] difference = 71 -> (0..29)
    [] difference = 75 -> (0..25)
    [] difference = 83 -> (0..17)
    [] difference = 87 -> (0..13)
    [] difference = 95 -> (0..5)
    [] difference = 99 -> (0..1)
    [] OTHER -> {}

\* a faulty variant of the step value: current has been advanced once more
\* than the loop has run
RoundedStepAhead(currentValue, difference, steps, k) ==
  RoundHalfUp(currentValue * steps + (k + 1) * difference, steps)

\* Math.round(current) after k additions of stepValue = difference / steps
RoundedStep(currentValue, difference, steps, k) ==
  LET exact == RoundHalfUp(currentValue * steps + k * difference, steps) IN
  IF 4 * k = Abs(difference) + 1 /\ currentValue \in StepRoundsDown(difference)
  THEN exact - 1 ELSE exact

(***************************************************************************)
(* State                                                                   *)
(***************************************************************************)
VARIABLES
  addon,                 \* "native" or "double": the addon the manager loaded
  g_mockMode,            \* native addon globals
  g_monitorCache,
  g_lastCacheUpdate,
  initCount,             \* number of Initialize calls so far
  outputs,               \* display outputs the OS reports (real mode)
  hw,                    \* hardware behind each output
  doubleFails,           \* ids for which the double's setBrightness returns false
  enumThrows,            \* whether the addon's getMonitors currently throws
  now,                   \* GetTickCount() / Date.now()
  monitors,              \* MonitorManager.monitors
  lastUpdate,            \* MonitorManager.lastUpdate
  enumCalls,             \* number of addon.getMonitors() invocations so far
  syncEnabled,           \* BrightnessController.syncEnabled
  transitionInProgress,  \* BrightnessController.transitionInProgress
  calls,                 \* engine calls issued so far, with their async state
  microtasks,            \* FIFO of continuations <<call, kid>> ready to run
  timers,                \* FIFO of sleeping transitions <<call, kid>>
  callerActive,          \* the caller's synchronous block has not ended yet
  lastGet,               \* what the last getMonitors request saw and did
  lastSet,               \* what the last device write found and left
  lastNative,            \* what the last direct addon call saw and did
  shadow,                \* per device addressed directly: the value of the last
                         \* successful write (for a real device: or live read)
  lastSync,              \* what the last sync:toggle request found and answered
  ramp,                  \* the values one stepped transition writes, one after another
  ddc,                   \* one external monitor, its physical-monitor handles and the
                         \* DDC/CI call in progress on it
  counters               \* how often the bounded environment steps were taken

vars == << addon, g_mockMode, g_monitorCache, g_lastCacheUpdate, initCount,
           outputs, hw, doubleFails, enumThrows, now, monitors, lastUpdate, enumCalls,
           syncEnabled, transitionInProgress, calls, microtasks, timers, callerActive,
           lastGet, lastSet, lastNative, shadow, lastSync, ramp, ddc, counters >>

World ==
  [addon |-> addon, g_mockMode |-> g_mockMode, g_monitorCache |-> g_monitorCache,
   g_lastCacheUpdate |-> g_lastCacheUpdate, initCount |-> initCount,
   outputs |-> outputs, hw |-> hw, doubleFails |-> doubleFails,
   enumThrows |-> enumThrows, now |-> now,
   monitors |-> monitors, lastUpdate |-> lastUpdate, enumCalls |-> enumCalls,
   lastSet |-> lastSet]

Install(w) ==
  /\ g_mockMode' = w.g_mockMode
  /\ g_monitorCache' = w.g_monitorCache
  /\ g_lastCacheUpdate' = w.g_lastCacheUpdate
  /\ initCount' = w.initCount
  /\ hw' = w.hw
  /\ monitors' = w.monitors
  /\ lastUpdate' = w.lastUpdate
  /\ enumCalls' = w.enumCalls
  /\ lastSet' = w.lastSet
  /\ UNCHANGED << addon, outputs, doubleFails, enumThrows, now >>

(***************************************************************************)
(* BrightnessController: asynchronous calls                                *)
(* A call record holds the state of one setMasterBrightness,               *)
(* setMonitorBrightness, increaseBrightness or decreaseBrightness          *)
(* invocation; its kids are the per-monitor async bodies it started (one   *)
(* for setMonitorBrightness).  A call's pc is the await it is suspended at:*)
(*   afterList        await getMonitors() of increase / decrease           *)
(*   afterGet         await getMonitors() / await getBrightness(id)        *)
(*   join             await Promise.all / await of its only body           *)
(*   return           Promise.all has resolved                             *)
(*   return2          await setMasterBrightness(...) of increase / decrease*)
(* and a kid's pc:                                                         *)
(*   afterWrite       await setBrightness(roundedValue) of step i          *)
(*   sleep            await sleep(STEP_DELAY_MS) after step i              *)
(*   afterFinal       await setBrightness(targetValue), the pinning write  *)
(*   afterTransition  await setWithTransition(...) in the caller           *)
(*   afterSet         await setBrightness(target) of a non-animated set    *)
(* While a stretch of synchronous code of call c runs,                     *)
(* st = [w, tip, call, q, tm, lg] is the world, transitionInProgress, the  *)
(* record of c, the microtask queue, the timer queue and lastGet.          *)
(***************************************************************************)
NewKid(id, from, to) ==
  [id |-> id, from |-> from, to |-> to, steps |-> 0, i |-> 0, pc |-> "done",
   started |-> FALSE, dropped |-> FALSE, writes |-> 0, okWrites |-> 0,
   finalOk |-> FALSE]

Push(st, c, kid) ==
  [st EXCEPT !.call.kids = Append(st.call.kids, kid),
             !.q = Append(st.q, <<c, Len(st.call.kids) + 1>>)]

\* a faulty variant of the guard: it never finds a transition in progress
OverlapGuardOff(tip, monitorId) == FALSE

\* if (this.transitionInProgress.get(monitorId)) return;
OverlapGuard(tip, monitorId) == tip[monitorId]

\* a faulty variant of the early return: it clears the flag on its way out
SkippedClearsFlag(st, c, kid) ==
  Push([st EXCEPT !.tip[kid.id] = FALSE], c,
       [kid EXCEPT !.dropped = TRUE, !.pc = "afterTransition"])

\* the guard's early return: nothing is written, the flag is left alone
Skipped(st, c, kid) ==
  Push(st, c, [kid EXCEPT !.dropped = TRUE, !.pc = "afterTransition"])

\* setWithTransition has set the flag and awaits its first write, r
FirstStep(st, c, kid, steps, r) ==
  Push([st EXCEPT !.tip[kid.id] = TRUE, !.w = r.w], c,
       [kid EXCEPT !.started = TRUE, !.steps = steps, !.pc = "afterWrite",
                   !.writes = 1, !.okWrites = IF r.ret THEN 1 ELSE 0])

\* setWithTransition from its entry to its first await (or its return)
setWithTransition(st, c, monitorId, currentValue, targetValue) ==
  LET kid == NewKid(monitorId, currentValue, targetValue)
      difference == targetValue - currentValue
      steps == StepCount(difference)
  IN IF OverlapGuard(st.tip, monitorId)
     THEN Skipped(st, c, kid)
     ELSE IF steps = 0
     THEN \* flag set, early return, flag cleared by the finally block
          Push([st EXCEPT !.tip[monitorId] = FALSE], c,
               [kid EXCEPT !.started = TRUE, !.pc = "afterTransition"])
     ELSE FirstStep(st, c, kid, steps,
                    setBrightness(st.w, monitorId,
                                  RoundedStep(currentValue, difference, steps, 1)))

DirectSetResult(st, c, monitorId, target, r) ==
  Push([st EXCEPT !.w = r.w], c,
       [NewKid(monitorId, target, target) EXCEPT
          !.pc = "afterSet", !.writes = 1,
          !.okWrites = IF r.ret THEN 1 ELSE 0, !.finalOk = r.ret])

\* the non-animated branch: await this.monitorManager.setBrightness(id, target)
DirectSet(st, c, monitorId, target) ==
  DirectSetResult(st, c, monitorId, target, setBrightness(st.w, monitorId, target))

\* the array getMonitors returned to the call: the manager's array, or the
\* array it held before a later refresh replaced it
ListOf(st) == IF st.call.live THEN st.w.monitors ELSE st.call.mons

\* a faulty variant of the fan-out: it stops at the first monitor whose
\* write failed
RECURSIVE FanOutUntilFailure(_, _, _)
FanOutUntilFailure(st, c, j) ==
  IF j > Len(ListOf(st))
     \/ \E k \in 1..Len(st.call.kids) :
          st.call.kids[k].writes > 0 /\ st.call.kids[k].okWrites = 0
  THEN st
  ELSE FanOutUntilFailure(
         IF st.call.animated
         THEN setWithTransition(st, c, ListOf(st)[j].id, ListOf(st)[j].current,
                                calculateProportionalBrightness(st.call.clamped, ListOf(st)[j]))
         ELSE DirectSet(st, c, ListOf(st)[j].id,
                        calculateProportionalBrightness(st.call.clamped, ListOf(st)[j])),
         c, j + 1)

\* a faulty variant of the fan-out: only the first monitor is handled
RECURSIVE MasterFanOutFirstOnly(_, _, _)
MasterFanOutFirstOnly(st, c, j) ==
  IF j > Len(ListOf(st)) \/ j > 1 THEN st
  ELSE LET monitor == ListOf(st)[j]
           target == calculateProportionalBrightness(st.call.clamped, monitor)
       IN MasterFanOutFirstOnly(
            IF st.call.animated
            THEN setWithTransition(st, c, monitor.id, monitor.current, target)
            ELSE DirectSet(st, c, monitor.id, target),
            c, j + 1)

\* monitors.map(async (monitor) => ...) from monitor j on
RECURSIVE MasterFanOut(_, _, _)
MasterFanOut(st, c, j) ==
  IF j > Len(ListOf(st)) THEN st
  ELSE LET monitor == ListOf(st)[j]
           target == calculateProportionalBrightness(st.call.clamped, monitor)
       IN MasterFanOut(
            IF st.call.animated
            THEN setWithTransition(st, c, monitor.id, monitor.current, target)
            ELSE DirectSet(st, c, monitor.id, target),
            c, j + 1)

\* the kid's record after one more write r; pc is the await it now stands at
Wrote(st, c, k, pc, i, final, r) ==
  [st EXCEPT !.w = r.w, !.q = Append(st.q, <<c, k>>),
             !.call.kids[k].pc = pc, !.call.kids[k].i = i,
             !.call.kids[k].writes = st.call.kids[k].writes + 1,
             !.call.kids[k].okWrites = st.call.kids[k].okWrites + (IF r.ret THEN 1 ELSE 0),
             !.call.kids[k].finalOk = final /\ r.ret]

\* a faulty variant of the clean-up: the flag is cleared only when the
\* transition ended with a successful write
ClearFlagOnSuccess(st, kid) ==
  IF kid.finalOk THEN [st EXCEPT !.tip[kid.id] = FALSE] ELSE st

\* finally { this.transitionInProgress.set(monitorId, false); }
ClearFlag(st, kid) == [st EXCEPT !.tip[kid.id] = FALSE]

\* a faulty variant of the resumption: the next step is written at once,
\* without the sleep between two steps
ResumeKidNoSleep(st, c, k) ==
  LET kid == st.call.kids[k] IN
  CASE kid.pc = "afterWrite" /\ kid.i < kid.steps - 1 ->
         Wrote(st, c, k, "afterWrite", kid.i + 1, FALSE,
               setBrightness(st.w, kid.id,
                             RoundedStep(kid.from, kid.to - kid.from, kid.steps, kid.i + 2)))
    [] kid.pc = "afterWrite" /\ kid.i >= kid.steps - 1 ->
         Wrote(st, c, k, "afterFinal", kid.i, TRUE, setBrightness(st.w, kid.id, kid.to))
    [] kid.pc = "afterFinal" ->
         [ClearFlag(st, kid) EXCEPT !.q = Append(st.q, <<c, k>>),
                                    !.call.kids[k].pc = "afterTransition"]
    [] OTHER -> [st EXCEPT !.call.kids[k].pc = "done"]

\* a kid resumed from the microtask queue
ResumeKid(st, c, k) ==
  LET kid == st.call.kids[k] IN
  CASE kid.pc = "afterWrite" /\ kid.i < kid.steps - 1 ->
         [st EXCEPT !.call.kids[k].pc = "sleep", !.tm = Append(st.tm, <<c, k>>)]
    [] kid.pc = "afterWrite" /\ kid.i >= kid.steps - 1 ->
         Wrote(st, c, k, "afterFinal", kid.i, TRUE, setBrightness(st.w, kid.id, kid.to))
    [] kid.pc = "afterFinal" ->
         [ClearFlag(st, kid) EXCEPT !.q = Append(st.q, <<c, k>>),
                                    !.call.kids[k].pc = "afterTransition"]
    [] OTHER -> [st EXCEPT !.call.kids[k].pc = "done"]

\* a kid resumed by its timer: the next iteration of the step loop
WakeKid(st, c, k) ==
  LET kid == st.call.kids[k] IN
  Wrote(st, c, k, "afterWrite", kid.i + 1, FALSE,
        setBrightness(st.w, kid.id,
                      RoundedStep(kid.from, kid.to - kid.from, kid.steps, kid.i + 2)))

AllDone(kids) == \A k \in 1..Len(kids) : kids[k].pc = "done"

GetRecord(w, forceRefresh, r) ==
  [valid |-> TRUE, force |-> forceRefresh, wasEmpty |-> Len(w.monitors) = 0,
   age |-> w.now - w.lastUpdate, before |-> w.enumCalls, after |-> r.w.enumCalls,
   same |-> r.ret = w.monitors /\ r.w.monitors = w.monitors,
   faulty |-> w.enumThrows, threw |-> r.threw,
   kept |-> r.w.monitors = w.monitors /\ r.w.lastUpdate = w.lastUpdate]

\* a faulty variant of the sync test: it never returns early
SyncGuardOff(enabled) == FALSE

\* if (!this.syncEnabled) return;
SyncGuard(enabled) == ~enabled

\* setMasterBrightness awaits the list r that getMonitors produced
MasterAwait(st, c, targetValue, animated, r) ==
  [st EXCEPT !.w = r.w, !.lg = GetRecord(st.w, FALSE, r),
             !.q = Append(st.q, <<c, 0>>),
             !.call.clamped = ClampTarget(targetValue),
             !.call.animated = animated, !.call.threw = r.threw,
             !.call.pc = "afterGet", !.call.live = TRUE, !.call.mons = << >>]

\* setMasterBrightness from its entry to its first await (or its return)
\* (checked and syncAtCheck record that the sync test was made and what
\* syncEnabled was at that moment)
MasterEntry(st, c, enabled, targetValue, animated) ==
  IF SyncGuard(enabled)
  THEN [st EXCEPT !.call.checked = TRUE, !.call.syncAtCheck = enabled]
  ELSE MasterAwait([st EXCEPT !.call.checked = TRUE, !.call.syncAtCheck = enabled],
                   c, targetValue, animated, getMonitors(st.w, FALSE))

RECURSIVE SumCurrent(_, _)
SumCurrent(list, j) == IF j > Len(list) THEN 0 ELSE list[j].current + SumCurrent(list, j + 1)

\* a faulty variant of the new master value: the first monitor's current value
\* stands in for the mean
NewBrightnessOfFirst(list, step) ==
  IF step >= 0 THEN Min(BRIGHTNESS_MAX, list[1].current + step)
  ELSE Max(BRIGHTNESS_MIN, list[1].current + step)

\* Math.round of Math.min(MAX, avg + step) or Math.max(MIN, avg + step),
\* avg the mean of the monitors' current values and step negative for decrease
NewBrightness(list, step) ==
  LET rounded == RoundHalfUp(SumCurrent(list, 1) + step * Len(list), Len(list)) IN
  IF step >= 0 THEN Min(BRIGHTNESS_MAX, rounded) ELSE Max(BRIGHTNESS_MIN, rounded)

\* increaseBrightness / decreaseBrightness resumed after await getMonitors()
\* (sum and count record the current values it read and how many there were)
StepBody(st, c, enabled) ==
  IF st.call.threw \/ Len(ListOf(st)) = 0 THEN st
  ELSE MasterEntry([st EXCEPT !.call.sum = SumCurrent(ListOf(st), 1),
                              !.call.count = Len(ListOf(st))],
                   c, enabled, NewBrightness(ListOf(st), st.call.target), TRUE)

\* a faulty variant of the catch block: a failed read goes unnoticed
ReadFailureIgnored(call) == FALSE

\* setMonitorBrightness: catch (error) { ...; return false; }
ReadFailed(call) == call.threw

\* a faulty variant of the per-monitor request: the value is also handed to
\* every other monitor the manager knows
MonitorBodySynced(st, c) ==
  MasterFanOut(st, c, 1)

\* setMonitorBrightness resumed after await getBrightness(monitorId)
MonitorBody(st, c) ==
  IF st.call.animated
  THEN setWithTransition(st, c, st.call.id, st.call.from, st.call.clamped)
  ELSE DirectSet(st, c, st.call.id, st.call.clamped)

\* the call resumed from the microtask queue
Continue(st, c, enabled) ==
  CASE st.call.pc = "afterList" -> StepBody(st, c, enabled)
    [] st.call.pc = "afterGet" /\ st.call.op = "monitor" /\ ~ReadFailed(st.call) ->
         MonitorBody(st, c)
    [] st.call.pc = "afterGet" /\ ~st.call.threw /\ st.call.op # "monitor" ->
         MasterFanOut(st, c, 1)
    [] OTHER -> st

\* the record of a call that has returned; rank orders the returns
Finish(call, result, w, rank) ==
  [call EXCEPT !.pc = "done", !.result = result, !.retMons = w.monitors, !.rank = rank]

\* the call record and the microtask queue once the synchronous stretch that
\* produced st has ended; pc0 is where the call stood before the stretch
\* ("issue" for a call just made) and k the kid that ran (0 for the call's
\* own body).  A finished setMonitorBrightness body returns true, Promise.all
\* resolves once the last per-monitor body has finished
Settle(st, c, k, pc0, rank) ==
  LET call == st.call
      done(result) == [st EXCEPT !.call = Finish(call, result, st.w, rank)]
      hop(pc) == [st EXCEPT !.call.pc = pc, !.q = Append(st.q, <<c, 0>>)]
  IN CASE k > 0 /\ AllDone(call.kids) /\ call.op = "monitor" -> done("true")
       [] k > 0 /\ AllDone(call.kids) /\ call.op # "monitor" -> hop("return")
       [] k > 0 /\ ~AllDone(call.kids) -> st
       [] k = 0 /\ pc0 = "issue" /\ call.pc = "issue" -> done("skipped")
       [] k = 0 /\ pc0 = "afterList" /\ call.threw -> done("error")
       [] k = 0 /\ pc0 = "afterList" /\ ~call.threw /\ ~call.checked -> done("ok")
       [] k = 0 /\ pc0 = "afterList" /\ call.checked /\ call.pc = "afterList" -> hop("return2")
       [] k = 0 /\ pc0 = "afterGet" /\ call.op = "monitor" /\ ReadFailed(call) ->
            done("false")
       [] k = 0 /\ pc0 = "afterGet" /\ call.op # "monitor" /\ call.threw ->
            done("error")
       [] k = 0 /\ pc0 = "afterGet" /\ call.op = "monitor" /\ ~ReadFailed(call) ->
            [st EXCEPT !.call.pc = "join"]
       [] k = 0 /\ pc0 = "afterGet" /\ ~call.threw /\ call.op # "monitor" ->
            IF AllDone(call.kids) THEN hop("return") ELSE [st EXCEPT !.call.pc = "join"]
       [] k = 0 /\ pc0 = "return" ->
            IF call.op \in {"increase", "decrease"} THEN hop("return2") ELSE done("ok")
       [] k = 0 /\ pc0 = "return2" -> done("ok")
       [] OTHER -> st

(***************************************************************************)
(* Initial state: the addon is loaded (and possibly initialised in mock    *)
(* mode), the MonitorManager constructor has run refreshMonitors once and  *)
(* the BrightnessController has been constructed.                          *)
(***************************************************************************)
MockIds == {"mock_internal_0", "mock_external_0", "mock_external_1"}
UnknownId == "no_such_monitor"
Targets == {-999999, 47, 50, 999999}
Steps == {3}

Output(internal, handle) == [internal |-> internal, handle |-> handle]
RealFleet == << Output(TRUE, 1), Output(FALSE, 2) >>
RealHws ==
  { << [level |-> 47, ok |-> TRUE], [level |-> 52, ok |-> TRUE] >>,
    << [level |-> 47, ok |-> FALSE], [level |-> 52, ok |-> TRUE] >> }

JsMonitor(id, type, min, max, current) ==
  [id |-> id, type |-> type, min |-> min, max |-> max, current |-> current]
DoubleFleets ==
  { << JsMonitor("monitor_0", "internal", 0, 75, 37),
       JsMonitor("monitor_1", "external", 0, 100, 50) >>,
    << >> }

AllIds ==
  MockIds \cup {"internal_0", "temp", UnknownId, "monitor_0", "monitor_1"}
  \cup {GenerateMonitorId(h, x) : h \in {1, 2}, x \in {0, 1}}

NoGet == [valid |-> FALSE, force |-> FALSE, wasEmpty |-> FALSE, age |-> 0,
          before |-> 0, after |-> 0, same |-> FALSE, faulty |-> FALSE,
          threw |-> FALSE, kept |-> FALSE]
NoSet == [valid |-> FALSE, id |-> "", ok |-> FALSE, devSame |-> FALSE,
          cacheSame |-> FALSE]
NoSync == [op |-> "none", before |-> FALSE, ret |-> FALSE, twice |-> "no"]
NoRamp == [on |-> FALSE, from |-> 0, to |-> 0, steps |-> 0, k |-> 0, prev |-> 0,
           value |-> 0, pinned |-> FALSE]
NoMonitor == [numOk |-> FALSE, num |-> 0, handlesOk |-> FALSE,
              high |-> [ok |-> FALSE, min |-> 0, cur |-> 0, max |-> 0],
              low |-> [ok |-> FALSE, cur |-> 0, max |-> 0],
              setHigh |-> FALSE, setLow |-> FALSE]
NoDDC == [mon |-> NoMonitor, op |-> "none", arg |-> 0, pc |-> "idle", brightness |-> -1,
          success |-> FALSE, open |-> 0, obtained |-> 0,
          current |-> RealDefaultBrightness, result |-> RealDefaultBrightness]
NoNative == [op |-> "none", id |-> "", ret |-> 0, threw |-> FALSE, arg |-> 0,
             follows |-> FALSE, answers |-> FALSE, current |-> -1,
             earlier |-> "none", built |-> << >>]

Blank(kind, fleet, fails, levels) ==
  [addon |-> kind, g_mockMode |-> FALSE, g_monitorCache |-> << >>,
   g_lastCacheUpdate |-> 0, initCount |-> 0, outputs |-> RealFleet, hw |-> levels,
   doubleFails |-> fails, enumThrows |-> FALSE, now |-> StartTime, monitors |-> fleet,
   lastUpdate |-> 0,
   enumCalls |-> 0, lastSet |-> NoSet]

MockConfig == [has |-> TRUE, val |-> TRUE]

Constructed ==
  {refreshMonitors(Blank("native", << >>, {}, levels)).w : levels \in RealHws}
  \cup {refreshMonitors(NativeInitialize(Blank("native", << >>, {}, levels), MockConfig).w).w :
          levels \in {CHOOSE l \in RealHws : \A o \in 1..Len(l) : l[o].ok}}
  \cup {refreshMonitors(Blank("double", fleet, {}, << >>)).w : fleet \in DoubleFleets}

\* the state once the MonitorManager and the BrightnessController have been
\* constructed over one of the worlds in ws
InitOver(ws) ==
  /\ \E w \in ws :
       /\ addon = w.addon
       /\ g_mockMode = w.g_mockMode
       /\ g_monitorCache = w.g_monitorCache
       /\ g_lastCacheUpdate = w.g_lastCacheUpdate
       /\ initCount = w.initCount
       /\ outputs = w.outputs
       /\ hw = w.hw
       /\ doubleFails = w.doubleFails
       /\ enumThrows = w.enumThrows
       /\ now = w.now
       /\ monitors = w.monitors
       /\ lastUpdate = w.lastUpdate
       /\ enumCalls = w.enumCalls
       /\ lastSet = w.lastSet
  /\ syncEnabled = TRUE
  /\ transitionInProgress = [id \in AllIds |-> FALSE]
  /\ calls = << >>
  /\ microtasks = << >>
  /\ timers = << >>
  /\ callerActive = FALSE
  /\ lastGet = NoGet
  /\ lastNative = NoNative
  /\ lastSync = NoSync
  /\ counters = [polls |-> 0, faults |-> 0, ticks |-> 0, inits |-> 0]

Init ==
  /\ InitOver(Constructed)
  /\ shadow = [id \in MockIds |-> -1]
  /\ ramp = NoRamp
  /\ ddc = NoDDC

\* devices of the double with bounds other than 0..100: <<min, max, current>>
Ranges == { <<0, 100, 50>>, <<45, 49, 47>>, <<50, 50, 50>>, <<0, 3, 1>>,
            <<98, 100, 99>>, <<20, 80, 52>> }
BoundedFleets ==
  { << JsMonitor("monitor_0", "internal", a[1], a[2], a[3]),
       JsMonitor("monitor_1", "external", b[1], b[2], b[3]) >> : a \in Ranges, b \in Ranges }
ConstructedBounded ==
  {refreshMonitors(Blank("double", fleet, {}, << >>)).w : fleet \in BoundedFleets}
InitBounded ==
  /\ InitOver(ConstructedBounded)
  /\ shadow = [id \in MockIds |-> -1]
  /\ ramp = NoRamp
  /\ ddc = NoDDC

\* RealMonitor objects of every kind the constructor can build: with and
\* without protocol support, internal on output 1, external on output 2
RealIds == {"internal_wmi", "internal_plain", "external_ddc", "external_plain"}
RealDevices(levels) ==
  << RealMonitor("internal_wmi", "internal", 1, TRUE, FALSE, levels, 0),
     RealMonitor("internal_plain", "internal", 1, FALSE, FALSE, levels, 0),
     RealMonitor("external_ddc", "external", 2, FALSE, TRUE, levels, 0),
     RealMonitor("external_plain", "external", 2, FALSE, FALSE, levels, 0) >>
ConstructedReal ==
  {[Blank("native", << >>, {}, levels) EXCEPT !.g_monitorCache = RealDevices(levels)] :
     levels \in RealHws}
\* shadow starts at what the constructor knows: its own live read, if the
\* device has protocol support and the hardware answered, else the default
InitReal ==
  /\ InitOver(ConstructedReal)
  /\ shadow = [id \in RealIds |->
                 IF id = "internal_wmi" /\ hw[1].ok THEN hw[1].level
                 ELSE IF id = "external_ddc" /\ hw[2].ok THEN hw[2].level
                 ELSE RealDefaultBrightness]
  /\ ramp = NoRamp
  /\ ddc = NoDDC

(***************************************************************************)
(* Event loop and engine actions                                           *)
(***************************************************************************)
\* a request can be issued between macrotasks, or back-to-back with the
\* previous one while the caller's synchronous block is still running
CanIssue == microtasks = << >> \/ callerActive

\* the ids requests are made for: the first monitor the manager knows
KnownIds == IF monitors = << >> THEN {} ELSE {Head(monitors).id}

\* a BrightnessChangeRequest: has tells whether the monitorId field is there;
\* the call of a request that did not come through the brightness:set channel
\* carries NoRequest
NoRequest == [made |-> FALSE, has |-> FALSE, monitorId |-> "", value |-> 0]

\* what is kept of a call that returned before the latest request was made
Gone ==
  [op |-> "gone", id |-> "", target |-> 0, animated |-> FALSE, clamped |-> 0,
   from |-> 0, threw |-> FALSE, pc |-> "done", result |-> "gone", live |-> FALSE,
   mons |-> << >>, kids |-> << >>, retMons |-> << >>, rank |-> 0, quiet |-> FALSE,
   prior |-> 0, checked |-> FALSE, syncAtCheck |-> FALSE, sum |-> 0, count |-> 0,
   request |-> NoRequest]

\* a new request is made: every call still in flight stops being the only
\* operation in progress, the record of a call that has returned is dropped
Disturb(cs) ==
  [j \in 1..Len(cs) |-> IF cs[j].pc = "done" THEN Gone ELSE [cs[j] EXCEPT !.quiet = FALSE]]

\* refreshMonitors assigned a new array to this.monitors: a call that is
\* still awaiting getMonitors keeps the array it was given
Retire(cs, w0, w1) ==
  IF w1.enumCalls = w0.enumCalls \/ w0.addon = "double" THEN cs
  ELSE [j \in 1..Len(cs) |->
          IF cs[j].pc \in {"afterGet", "afterList"} /\ cs[j].op # "monitor" /\ cs[j].live
          THEN [cs[j] EXCEPT !.live = FALSE, !.mons = w0.monitors]
          ELSE cs[j]]

Returned == Cardinality({j \in 1..Len(calls) : calls[j].pc = "done"})

NewCall(op, id, targetValue, animated) ==
  [op |-> op, id |-> id, target |-> targetValue, animated |-> animated,
   clamped |-> ClampTarget(targetValue), from |-> 0, threw |-> FALSE,
   pc |-> "issue", result |-> "pending", live |-> TRUE, mons |-> << >>,
   kids |-> << >>, retMons |-> << >>, rank |-> 0,
   quiet |-> \A j \in 1..Len(calls) : calls[j].pc = "done",
   prior |-> 0, checked |-> FALSE, syncAtCheck |-> FALSE, sum |-> 0, count |-> 0,
   request |-> NoRequest]

Stretch(call) ==
  [w |-> World, tip |-> transitionInProgress, call |-> call, q |-> microtasks,
   tm |-> timers, lg |-> lastGet]

\* the state after a request has run up to its first await
Issue(st) ==
  /\ Install(st.w)
  /\ calls' = Append(Retire(Disturb(calls), World, st.w), st.call)
  /\ microtasks' = st.q
  /\ callerActive' = (st.q # << >>)
  /\ lastGet' = st.lg
  /\ UNCHANGED << syncEnabled, transitionInProgress, timers, lastNative, shadow,
                  lastSync, ramp, ddc,
                  counters >>

setMasterBrightness(targetValue, animated) ==
  /\ CanIssue
  /\ Len(calls) < MaxCalls
  /\ Issue(Settle(MasterEntry(Stretch(NewCall("master", "", targetValue, animated)),
                              Len(calls) + 1, syncEnabled, targetValue, animated),
                  Len(calls) + 1, 0, "issue", Returned + 1))

\* the earliest animated request for the same id that is still in flight
PriorOf(monitorId, animated) ==
  LET earlier == {j \in 1..Len(calls) :
                    /\ calls[j].op = "monitor" /\ calls[j].id = monitorId
                    /\ calls[j].animated /\ calls[j].pc # "done"}
  IN IF animated /\ earlier # {}
     THEN CHOOSE j \in earlier : \A x \in earlier : j <= x
     ELSE 0

\* the request awaits the value r that getBrightness produced
MonitorAwait(st, c, r) ==
  [st EXCEPT !.w = r.w, !.q = Append(st.q, <<c, 0>>),
             !.call.threw = r.threw, !.call.from = r.ret, !.call.pc = "afterGet"]

setMonitorBrightness(monitorId, targetValue, animated) ==
  /\ CanIssue
  /\ Len(calls) < MaxCalls
  /\ Issue(MonitorAwait(
             Stretch([NewCall("monitor", monitorId, targetValue, animated) EXCEPT
                        !.prior = PriorOf(monitorId, animated)]),
             Len(calls) + 1, getBrightness(World, monitorId)))

\* the request awaits the list r that getMonitors produced
StepAwait(st, c, r) ==
  [st EXCEPT !.w = r.w, !.lg = GetRecord(st.w, FALSE, r),
             !.q = Append(st.q, <<c, 0>>),
             !.call.threw = r.threw, !.call.pc = "afterList"]

\* increaseBrightness(step) for step > 0, decreaseBrightness(-step) for step < 0
StepBrightness(op, step) ==
  /\ CanIssue
  /\ Len(calls) < MaxCalls
  /\ Issue(StepAwait(Stretch(NewCall(op, "", step, TRUE)), Len(calls) + 1,
                     getMonitors(World, FALSE)))

increaseBrightness(step) == StepBrightness("increase", step)

decreaseBrightness(step) == StepBrightness("decrease", -step)

\* behaviours are followed as long as no transition of more than MaxSteps
\* steps has started
Short(kids) == \A k \in 1..Len(kids) : kids[k].steps <= MaxSteps

Commit(st, c) ==
  /\ Short(st.call.kids)
  /\ Install(st.w)
  /\ transitionInProgress' = st.tip
  /\ calls' = [Retire(calls, World, st.w) EXCEPT ![c] = st.call]
  /\ microtasks' = st.q
  /\ timers' = st.tm
  /\ callerActive' = FALSE
  /\ lastGet' = st.lg
  /\ UNCHANGED << syncEnabled, lastNative, shadow, lastSync, ramp, ddc, counters >>

\* the event loop runs the continuation at the head of the microtask queue
Resumed(c, k) ==
  Settle(IF k > 0
         THEN ResumeKid([Stretch(calls[c]) EXCEPT !.q = Tail(microtasks)], c, k)
         ELSE Continue([Stretch(calls[c]) EXCEPT !.q = Tail(microtasks)], c, syncEnabled),
         c, k, calls[c].pc, Returned + 1)

RunMicrotask ==
  /\ microtasks # << >>
  /\ \E st \in {Resumed(Head(microtasks)[1], Head(microtasks)[2])} :
       Commit(st, Head(microtasks)[1])

\* the oldest sleep() timer fires once the microtask queue is empty
FireTimer ==
  /\ microtasks = << >>
  /\ timers # << >>
  /\ \E st \in {WakeKid([Stretch(calls[Head(timers)[1]]) EXCEPT !.tm = Tail(timers)],
                          Head(timers)[1], Head(timers)[2])} :
       Commit(st, Head(timers)[1])

\* a faulty variant of the toggle: it always switches sync on
ToggledOn(enabled) == TRUE

\* this.syncEnabled = !this.syncEnabled
Toggled(enabled) == ~enabled

toggleSync ==
  /\ CanIssue
  /\ syncEnabled' = Toggled(syncEnabled)
  /\ UNCHANGED << addon, g_mockMode, g_monitorCache, g_lastCacheUpdate, initCount,
                  outputs, hw, doubleFails, enumThrows, now, monitors, lastUpdate, enumCalls,
                  transitionInProgress, calls, microtasks, timers, callerActive,
                  lastGet, lastSet, lastNative, shadow, lastSync, ramp, ddc, counters >>

setSyncEnabled(enabled) ==
  /\ CanIssue
  /\ syncEnabled' = enabled
  /\ UNCHANGED << addon, g_mockMode, g_monitorCache, g_lastCacheUpdate, initCount,
                  outputs, hw, doubleFails, enumThrows, now, monitors, lastUpdate, enumCalls,
                  transitionInProgress, calls, microtasks, timers, callerActive,
                  lastGet, lastSet, lastNative, shadow, lastSync, ramp, ddc, counters >>

\* the sync:toggle request: toggleSync() returns this.syncEnabled as it is
\* after the assignment, and the handler answers with that value.  lastSync
\* records the state found, the answer, and in twice whether this request
\* directly follows another one and brought back the state that one found
handleSyncToggle ==
  /\ CanIssue
  /\ syncEnabled' = Toggled(syncEnabled)
  /\ lastSync' = [op |-> "toggle", before |-> syncEnabled, ret |-> syncEnabled',
                  twice |-> IF lastSync.op = "toggle" /\ lastSync.ret = syncEnabled
                            THEN IF syncEnabled' = lastSync.before
                                 THEN "restored" ELSE "changed"
                            ELSE "no"]
  /\ UNCHANGED << addon, g_mockMode, g_monitorCache, g_lastCacheUpdate, initCount,
                  outputs, hw, doubleFails, enumThrows, now, monitors, lastUpdate, enumCalls,
                  transitionInProgress, calls, microtasks, timers, callerActive,
                  lastGet, lastSet, lastNative, shadow, ramp, ddc, counters >>

\* if (request.monitorId): an absent field and the empty string are falsy
NamesMonitor(request) == request.has /\ request.monitorId # ""

\* the brightness:set request up to the first await of the controller call it
\* makes (the handler's own continuation only writes the settings store and
\* builds the response, neither of which is part of the state)
handleBrightnessSet(request) ==
  /\ CanIssue
  /\ Len(calls) < MaxCalls
  /\ IF NamesMonitor(request)
     THEN Issue(MonitorAwait(
                  Stretch([NewCall("monitor", request.monitorId, request.value, TRUE) EXCEPT
                             !.prior = PriorOf(request.monitorId, TRUE),
                             !.request = request]),
                  Len(calls) + 1, getBrightness(World, request.monitorId)))
     ELSE Issue(Settle(MasterEntry(
                         Stretch([NewCall("master", "", request.value, TRUE) EXCEPT
                                    !.request = request]),
                         Len(calls) + 1, syncEnabled, request.value, TRUE),
                       Len(calls) + 1, 0, "issue", Returned + 1))

Engine ==
  \/ \E t \in Targets, a \in BOOLEAN : setMasterBrightness(t, a)
  \/ \E id \in KnownIds \cup {UnknownId}, t \in Targets, a \in BOOLEAN :
       setMonitorBrightness(id, t, a)
  \/ \E step \in Steps : increaseBrightness(step)
  \/ \E step \in Steps : decreaseBrightness(step)
  \/ RunMicrotask
  \/ FireTimer
  \/ toggleSync
  \/ \E e \in BOOLEAN : setSyncEnabled(e)

(***************************************************************************)
(* Requests that reach the MonitorManager and the addon from outside the   *)
(* engine, the clock and the hardware                                      *)
(***************************************************************************)
\* a getMonitors request (the renderer's poll uses forceRefresh = true)
PollResult(forceRefresh, r) ==
  /\ Install(r.w)
  /\ calls' = Retire(Disturb(calls), World, r.w)
  /\ lastGet' = GetRecord(World, forceRefresh, r)

PollMonitors(forceRefresh) ==
  /\ CanIssue
  /\ counters.polls < MaxPolls
  /\ PollResult(forceRefresh, getMonitors(World, forceRefresh))
  /\ counters' = [counters EXCEPT !.polls = counters.polls + 1]
  /\ UNCHANGED << syncEnabled, transitionInProgress, microtasks, timers, callerActive,
                  lastNative, shadow, lastSync, ramp, ddc >>

\* time passes between macrotasks
Advance ==
  /\ microtasks = << >>
  /\ counters.ticks < MaxTicks
  /\ now' = now + TickMs
  /\ counters' = [counters EXCEPT !.ticks = counters.ticks + 1]
  /\ UNCHANGED << addon, g_mockMode, g_monitorCache, g_lastCacheUpdate, initCount,
                  outputs, hw, doubleFails, enumThrows, monitors, lastUpdate, enumCalls,
                  syncEnabled, transitionInProgress, calls, microtasks, timers,
                  callerActive, lastGet, lastSet, lastNative, shadow, lastSync, ramp, ddc >>

\* an output starts or stops answering live reads and writes
HardwareFault(o) ==
  /\ addon = "native"
  /\ counters.faults < MaxFaults
  /\ hw' = [hw EXCEPT ![o].ok = ~hw[o].ok]
  /\ counters' = [counters EXCEPT !.faults = counters.faults + 1]
  /\ UNCHANGED << addon, g_mockMode, g_monitorCache, g_lastCacheUpdate, initCount,
                  outputs, doubleFails, enumThrows, now, monitors, lastUpdate, enumCalls,
                  syncEnabled, transitionInProgress, calls, microtasks, timers,
                  callerActive, lastGet, lastSet, lastNative, shadow, lastSync, ramp, ddc >>

\* the addon's enumeration starts or stops failing with an exception
EnumerationFault ==
  /\ counters.faults < MaxFaults
  /\ enumThrows' = ~enumThrows
  /\ counters' = [counters EXCEPT !.faults = counters.faults + 1]
  /\ UNCHANGED << addon, g_mockMode, g_monitorCache, g_lastCacheUpdate, initCount,
                  outputs, hw, doubleFails, now, monitors, lastUpdate, enumCalls,
                  syncEnabled, transitionInProgress, calls, microtasks, timers,
                  callerActive, lastGet, lastSet, lastNative, shadow, lastSync, ramp, ddc >>

\* the OS reports another set of display outputs (a display is plugged in
\* or removed, or the primary display changes)
Fleets ==
  { RealFleet,
    << Output(FALSE, 1), Output(FALSE, 2) >>,
    << Output(TRUE, 1), Output(TRUE, 2) >>,
    << Output(FALSE, 2) >>,
    << >> }

Hotplug(fleet) ==
  /\ addon = "native"
  /\ fleet # outputs
  /\ outputs' = fleet
  /\ UNCHANGED << addon, g_mockMode, g_monitorCache, g_lastCacheUpdate, initCount,
                  hw, doubleFails, enumThrows, now, monitors, lastUpdate, enumCalls,
                  syncEnabled, transitionInProgress, calls, microtasks, timers,
                  callerActive, lastGet, lastSet, lastNative, shadow, lastSync, ramp,
                  ddc, counters >>

\* ---- direct calls of the addon's entry points ----
NativeIds == {"mock_internal_0", GenerateMonitorId(2, 0), UnknownId}
NativeValues == {30, 130}
Configs == {[has |-> FALSE, val |-> FALSE], [has |-> TRUE, val |-> FALSE],
            [has |-> TRUE, val |-> TRUE]}

\* the device accepts writes: a simulated device, or a real one with protocol
\* support whose hardware answers
Answers(d, levels) == d.mock \/ (IsControllable(d) /\ levels[d.out].ok)

\* what the caller could observe of the device right after a call
Observed(w, monitorId) ==
  LET i == FindIdx(w.g_monitorCache, monitorId) IN
  IF i = 0 THEN [answers |-> FALSE, current |-> -1]
  ELSE [answers |-> Answers(w.g_monitorCache[i], w.hw),
        current |-> DevGetBrightness(w.g_monitorCache[i], w.hw).ret]

\* lastNative remembers the call, its argument and its outcome, whether the
\* device addressed accepted writes and what it read right after the call;
\* earlier is the result of the call before it if that was a write of the
\* same value to the same device and the device accepted writes then; built
\* is the list of devices the factory handed out if the call made it enumerate
Direct(r, op, monitorId, value, written) ==
  /\ Install(r.w)
  /\ lastNative' = [op |-> op, id |-> monitorId, ret |-> r.ret, threw |-> r.threw,
                    arg |-> value, follows |-> FALSE,
                    answers |-> Observed(r.w, monitorId).answers,
                    current |-> Observed(r.w, monitorId).current,
                    earlier |-> IF /\ op = "setBrightness" /\ lastNative.op = op
                                   /\ lastNative.id = monitorId
                                   /\ lastNative.arg = value /\ lastNative.answers
                                THEN IF lastNative.ret THEN "true" ELSE "false"
                                ELSE "none",
                    built |-> IF op # "initialize" /\ CacheStale(World)
                              THEN RefreshMonitorCache(World).g_monitorCache
                              ELSE << >>]
  /\ shadow' = IF op = "initialize" THEN [id \in MockIds |-> -1]
               ELSE IF op = "setBrightness" /\ ~r.threw /\ r.ret /\ monitorId \in MockIds
                       /\ g_mockMode
               THEN [shadow EXCEPT ![monitorId] = written]
               ELSE shadow
  /\ UNCHANGED << syncEnabled, transitionInProgress, calls, microtasks, timers,
                  callerActive, lastGet, lastSync, ramp, ddc >>

CallInitialize(config) ==
  /\ addon = "native"
  /\ counters.inits < MaxInits
  /\ Direct(NativeInitialize(World, config), "initialize", "", 0, 0)
  /\ counters' = [counters EXCEPT !.inits = counters.inits + 1]

CallGetMonitors ==
  /\ addon = "native"
  /\ Direct(NativeGetMonitors(World), "getMonitors", "", 0, 0)
  /\ UNCHANGED counters

CallGetBrightness(monitorId) ==
  /\ addon = "native"
  /\ Direct(NativeGetBrightness(World, monitorId), "getBrightness", monitorId, 0, 0)
  /\ UNCHANGED counters

CallSetBrightness(monitorId, value) ==
  /\ addon = "native"
  /\ Direct(NativeSetBrightness(World, monitorId, value), "setBrightness", monitorId,
            value, Min(100, Max(0, value)))
  /\ UNCHANGED counters

\* ---- a simulated device addressed directly through its IMonitor interface ----
DeviceValues == {-999999, -1, 0, 37, 100, 101, 999999}

MockMonitorSetBrightness(i, value) ==
  /\ addon = "native"
  /\ i \in 1..Len(g_monitorCache)
  /\ g_monitorCache[i].mock
  /\ \E r \in {DevSetBrightness(g_monitorCache[i], value, hw)} :
       /\ g_monitorCache' = [g_monitorCache EXCEPT ![i] = r.dev]
       /\ hw' = r.hw
       /\ lastNative' = [op |-> "MockMonitor::SetBrightness", id |-> g_monitorCache[i].id,
                         ret |-> r.ret, threw |-> FALSE, arg |-> value,
                         follows |-> FALSE, answers |-> TRUE, current |-> r.dev.cur,
                         earlier |-> "none", built |-> << >>]
  /\ shadow' = [shadow EXCEPT ![g_monitorCache[i].id] = Min(100, Max(0, value))]
  /\ UNCHANGED << addon, g_mockMode, g_lastCacheUpdate, initCount,
                  outputs, doubleFails, enumThrows, now, monitors, lastUpdate, enumCalls,
                  syncEnabled, transitionInProgress, calls, microtasks, timers,
                  callerActive, lastGet, lastSet, lastSync, ramp, ddc, counters >>

\* follows: the read comes directly after a write to the same device, and
\* arg is then the value that write was given
MockMonitorGetBrightness(i) ==
  /\ addon = "native"
  /\ i \in 1..Len(g_monitorCache)
  /\ g_monitorCache[i].mock
  /\ \E r \in {DevGetBrightness(g_monitorCache[i], hw)} :
       /\ g_monitorCache' = [g_monitorCache EXCEPT ![i] = r.dev]
       /\ lastNative' =
            [op |-> "MockMonitor::GetBrightness", id |-> g_monitorCache[i].id,
             ret |-> r.ret, threw |-> FALSE,
             arg |-> lastNative.arg,
             follows |-> /\ lastNative.op = "MockMonitor::SetBrightness"
                         /\ lastNative.id = g_monitorCache[i].id,
             answers |-> TRUE, current |-> r.ret,
             earlier |-> "none", built |-> << >>]
  /\ UNCHANGED << addon, g_mockMode, g_lastCacheUpdate, initCount,
                  outputs, hw, doubleFails, enumThrows, now, monitors, lastUpdate,
                  enumCalls, syncEnabled, transitionInProgress, calls, microtasks,
                  timers, callerActive, lastGet, lastSet, shadow, lastSync, ramp, ddc,
                  counters >>

\* ---- a real device addressed directly through its IMonitor interface ----
\* answers: the device had protocol support and the hardware answered;
\* arg of a read: the best value known before it
RealMonitorSetBrightness(i, value) ==
  /\ addon = "native"
  /\ i \in 1..Len(g_monitorCache)
  /\ ~g_monitorCache[i].mock
  /\ \E r \in {DevSetBrightness(g_monitorCache[i], value, hw)} :
       /\ g_monitorCache' = [g_monitorCache EXCEPT ![i] = r.dev]
       /\ hw' = r.hw
       /\ lastNative' = [op |-> "RealMonitor::SetBrightness", id |-> g_monitorCache[i].id,
                         ret |-> r.ret, threw |-> FALSE, arg |-> value,
                         follows |-> FALSE,
                         answers |-> Answers(g_monitorCache[i], hw),
                         current |-> r.dev.cur, earlier |-> "none", built |-> << >>]
       /\ lastSet' = [valid |-> TRUE, id |-> g_monitorCache[i].id, ok |-> r.ret,
                      devSame |-> r.dev = g_monitorCache[i] /\ r.hw = hw,
                      cacheSame |-> TRUE]
       /\ shadow' = IF r.ret
                    THEN [shadow EXCEPT ![g_monitorCache[i].id] =
                            Max(RealMinBrightness, Min(RealMaxBrightness, value))]
                    ELSE shadow
  /\ UNCHANGED << addon, g_mockMode, g_lastCacheUpdate, initCount,
                  outputs, doubleFails, enumThrows, now, monitors, lastUpdate, enumCalls,
                  syncEnabled, transitionInProgress, calls, microtasks, timers,
                  callerActive, lastGet, lastSync, ramp, ddc, counters >>

RealMonitorGetBrightness(i) ==
  /\ addon = "native"
  /\ i \in 1..Len(g_monitorCache)
  /\ ~g_monitorCache[i].mock
  /\ \E r \in {DevGetBrightness(g_monitorCache[i], hw)} :
       /\ g_monitorCache' = [g_monitorCache EXCEPT ![i] = r.dev]
       /\ lastNative' = [op |-> "RealMonitor::GetBrightness", id |-> g_monitorCache[i].id,
                         ret |-> r.ret, threw |-> FALSE,
                         arg |-> shadow[g_monitorCache[i].id],
                         follows |-> FALSE,
                         answers |-> Answers(g_monitorCache[i], hw),
                         current |-> r.dev.cur, earlier |-> "none", built |-> << >>]
       /\ shadow' = IF Answers(g_monitorCache[i], hw)
                    THEN [shadow EXCEPT ![g_monitorCache[i].id] =
                            hw[g_monitorCache[i].out].level]
                    ELSE shadow
  /\ UNCHANGED << addon, g_mockMode, g_lastCacheUpdate, initCount,
                  outputs, hw, doubleFails, enumThrows, now, monitors, lastUpdate,
                  enumCalls, syncEnabled, transitionInProgress, calls, microtasks,
                  timers, callerActive, lastGet, lastSet, lastSync, ramp, ddc, counters >>

Native ==
  \/ \E config \in Configs : CallInitialize(config)
  \/ CallGetMonitors
  \/ \E id \in NativeIds : CallGetBrightness(id)
  \/ \E id \in NativeIds, v \in NativeValues : CallSetBrightness(id, v)
  \/ Advance
  \/ \E o \in 1..Len(hw) : HardwareFault(o)

Cache ==
  \/ \E f \in BOOLEAN : PollMonitors(f)
  \/ Advance
  \/ \E o \in 1..Len(hw) : HardwareFault(o)
  \/ EnumerationFault

Factory ==
  \/ \E fleet \in Fleets : Hotplug(fleet)
  \/ \E o \in 1..Len(hw) : HardwareFault(o)
  \/ Advance
  \/ \E config \in Configs : CallInitialize(config)
  \/ CallGetMonitors

Device ==
  \/ \E i \in 1..3, v \in DeviceValues : MockMonitorSetBrightness(i, v)
  \/ \E i \in 1..3 : MockMonitorGetBrightness(i)
  \/ \E config \in Configs : CallInitialize(config)
  \/ CallGetMonitors

Next == Engine

\* the engine on the event loop
Spec == Init /\ [][Next]_vars

\* the MonitorManager's enumeration cache under the clock
SpecCache == Init /\ [][Cache]_vars

\* the addon called directly, under the clock
SpecNative == Init /\ [][Native]_vars

\* requests for brightness changes on an event loop that keeps running:
\* a queued continuation is eventually run, a due timer eventually fires
Transitions ==
  \/ \E t \in Targets, a \in BOOLEAN : setMasterBrightness(t, a)
  \/ \E id \in KnownIds \cup {UnknownId}, t \in Targets, a \in BOOLEAN :
       setMonitorBrightness(id, t, a)
  \/ RunMicrotask
  \/ FireTimer

\* the behaviour is not followed further: the continuation at the head of the
\* microtask queue would start a transition of more than MaxSteps steps
Truncated ==
  /\ microtasks # << >>
  /\ ~Short(Resumed(Head(microtasks)[1], Head(microtasks)[2]).call.kids)

\* the states in which RunMicrotask / FireTimer can take a step
Runnable == microtasks # << >> /\ ~Truncated
Due == microtasks = << >> /\ timers # << >>

\* weak fairness of RunMicrotask and of FireTimer, [] <> ~ENABLED <<A>>_vars
\* \/ [] <> <<A>>_vars, written with the enabling conditions Runnable and Due
\* of the two actions
EventLoopRuns ==
  /\ ([]<>(~Runnable) \/ []<><<RunMicrotask>>_vars)
  /\ ([]<>(~Due) \/ []<><<FireTimer>>_vars)

SpecLive == Init /\ [][Transitions]_vars /\ EventLoopRuns

\* enumeration by the factory while the set of display outputs changes
SpecFactory == Init /\ [][Factory]_vars

\* simulated devices driven through their own interface
SpecDevice == Init /\ [][Device]_vars

\* master requests far outside 0..100 over devices of any bounds
ExtremeTargets == {-999999, 999999}
Extreme ==
  \/ \E t \in ExtremeTargets, a \in BOOLEAN : setMasterBrightness(t, a)
  \/ RunMicrotask
  \/ FireTimer

SpecExtreme == InitBounded /\ [][Extreme]_vars

\* the sync switch operated while master requests are under way
Sync ==
  \/ handleSyncToggle
  \/ toggleSync
  \/ \E e \in BOOLEAN : setSyncEnabled(e)
  \/ \E t \in Targets, a \in BOOLEAN : setMasterBrightness(t, a)
  \/ RunMicrotask
  \/ FireTimer

SpecSync == Init /\ [][Sync]_vars

\* real devices driven through their own interface while the hardware
\* starts and stops answering
Real ==
  \/ \E i \in 1..4, v \in DeviceValues : RealMonitorSetBrightness(i, v)
  \/ \E i \in 1..4 : RealMonitorGetBrightness(i)
  \/ \E o \in 1..Len(hw) : HardwareFault(o)

SpecReal == InitReal /\ [][Real]_vars

\* animated brightness requests while display outputs start and stop answering
Faulty ==
  \/ \E t \in Targets : setMasterBrightness(t, TRUE)
  \/ \E id \in KnownIds, t \in Targets : setMonitorBrightness(id, t, TRUE)
  \/ RunMicrotask
  \/ FireTimer
  \/ \E o \in 1..Len(hw) : HardwareFault(o)
SpecFaulty == Init /\ [][Faulty]_vars

\* brightness:set requests with and without a monitorId field
RequestValues == {47, 50}
Requests ==
  {[made |-> TRUE, has |-> TRUE, monitorId |-> id, value |-> v] :
     id \in KnownIds \cup {UnknownId, ""}, v \in RequestValues}
  \cup {[made |-> TRUE, has |-> FALSE, monitorId |-> "", value |-> v] : v \in RequestValues}
Ipc ==
  \/ \E request \in Requests : handleBrightnessSet(request)
  \/ RunMicrotask
  \/ FireTimer
SpecIpc == Init /\ [][Ipc]_vars

(***************************************************************************)
(* The values of a stepped transition, for every from and to in 0..100     *)
(***************************************************************************)
\* setWithTransition(id, from, to) before its loop: steps computed, nothing
\* written; value is the value last written (from, before the first write)
StartRamp(from, to) ==
  [on |-> TRUE, from |-> from, to |-> to, steps |-> StepCount(to - from), k |-> 0,
   prev |-> from, value |-> from, pinned |-> FALSE]

InitRamp ==
  /\ InitOver({refreshMonitors(Blank("double", << >>, {}, << >>)).w})
  /\ shadow = [id \in MockIds |-> -1]
  /\ ddc = NoDDC
  /\ ramp \in {StartRamp(from, to) : from \in BRIGHTNESS_MIN..BRIGHTNESS_MAX,
                                     to \in BRIGHTNESS_MIN..BRIGHTNESS_MAX}

\* one iteration of the loop: current += stepValue; write Math.round(current)
StepWrite ==
  /\ ramp.on /\ ramp.k < ramp.steps
  /\ ramp' = [ramp EXCEPT !.k = ramp.k + 1, !.prev = ramp.value,
                          !.value = RoundedStep(ramp.from, ramp.to - ramp.from,
                                                ramp.steps, ramp.k + 1)]
  /\ UNCHANGED << addon, g_mockMode, g_monitorCache, g_lastCacheUpdate, initCount,
                  outputs, hw, doubleFails, enumThrows, now, monitors, lastUpdate, enumCalls,
                  syncEnabled, transitionInProgress, calls, microtasks, timers,
                  callerActive, lastGet, lastSet, lastNative, shadow, lastSync, ddc,
                  counters >>

\* after the loop: await this.monitorManager.setBrightness(monitorId, targetValue)
FinalWrite ==
  /\ ramp.on /\ ramp.steps > 0 /\ ramp.k = ramp.steps /\ ~ramp.pinned
  /\ ramp' = [ramp EXCEPT !.prev = ramp.value, !.value = ramp.to, !.pinned = TRUE]
  /\ UNCHANGED << addon, g_mockMode, g_monitorCache, g_lastCacheUpdate, initCount,
                  outputs, hw, doubleFails, enumThrows, now, monitors, lastUpdate, enumCalls,
                  syncEnabled, transitionInProgress, calls, microtasks, timers,
                  callerActive, lastGet, lastSet, lastNative, shadow, lastSync, ddc,
                  counters >>

Ramp ==
  \/ StepWrite
  \/ FinalWrite
SpecRamp == InitRamp /\ [][Ramp]_vars

(***************************************************************************)
(* RealMonitor, external monitor: the DDC/CI calls statement by statement  *)
(* ddc.mon is what the OS and the monitor answer: whether the number of    *)
(* physical monitors can be read and what it is, whether their handles can *)
(* be obtained, what the high-level and the low-level (VCP feature 0x10)   *)
(* read report and whether the two writes succeed.  ddc.open counts the    *)
(* physical-monitor handles the process holds, ddc.obtained those the call *)
(* in progress (or the last call) obtained, ddc.pc is the statement the    *)
(* call stands at, ddc.current is m_currentBrightness and ddc.result what  *)
(* RealMonitor::GetBrightness returned last.                               *)
(***************************************************************************)
\* the values reported are DWORDs below 2^31 / 100: on these neither the
\* product currentValue * 100 wraps nor the conversion to int changes the value
HighReports ==
  { [ok |-> FALSE, min |-> 0, cur |-> 0, max |-> 0],
    [ok |-> TRUE, min |-> 0, cur |-> 50, max |-> 100],
    [ok |-> TRUE, min |-> 0, cur |-> 200, max |-> 255],
    [ok |-> TRUE, min |-> 30, cur |-> 30, max |-> 30] }
LowReports ==
  { [ok |-> FALSE, cur |-> 0, max |-> 0],
    [ok |-> TRUE, cur |-> 128, max |-> 255],
    [ok |-> TRUE, cur |-> 50, max |-> 0],
    [ok |-> TRUE, cur |-> 300, max |-> 255],
    [ok |-> TRUE, cur |-> 1000, max |-> 1000] }
ExternalMonitors ==
  [numOk : BOOLEAN, num : 0..2, handlesOk : BOOLEAN, high : HighReports,
   low : LowReports, setHigh : BOOLEAN, setLow : BOOLEAN]
WriteValues == {-5, 50, 150}

InitDDC ==
  /\ InitOver({[Blank("native", << >>, {}, levels) EXCEPT
                  !.g_monitorCache = RealDevices(levels)] :
                 levels \in {CHOOSE l \in RealHws : \A o \in 1..Len(l) : l[o].ok}})
  /\ shadow = [id \in RealIds |-> RealDefaultBrightness]
  /\ ramp = NoRamp
  /\ ddc \in {[NoDDC EXCEPT !.mon = m] : m \in ExternalMonitors}

\* a faulty variant of the clean-up: only the handle that was used is released
DestroyedFirstOnly(d) == 1

\* DestroyPhysicalMonitors(numPhysicalMonitors, &physicalMonitors[0])
Destroyed(d) == d.mon.num

\* (int)((currentValue * 100) / maxValue)
Percentage(currentValue, maxValue) == (currentValue * 100) \div maxValue

\* the DDC call returns to RealMonitor::GetBrightness / SetBrightness:
\* if (brightness >= 0) m_currentBrightness = brightness, and
\* if (success) m_currentBrightness = value
ReturnDDC(d) ==
  LET current == IF d.op = "get" /\ d.brightness >= 0 THEN d.brightness
                 ELSE IF d.op = "set" /\ d.success THEN d.arg
                 ELSE d.current
  IN [d EXCEPT !.pc = "idle", !.current = current,
               !.result = IF d.op = "get" THEN current ELSE d.result]

\* RealMonitor::GetBrightness on an external monitor with m_supportsDDC
GetExternalBrightnessDDC ==
  /\ ddc.pc = "idle"
  /\ ddc' = [ddc EXCEPT !.op = "get", !.pc = "count", !.brightness = -1,
                        !.success = FALSE, !.obtained = 0]
  /\ UNCHANGED << addon, g_mockMode, g_monitorCache, g_lastCacheUpdate, initCount,
                  outputs, hw, doubleFails, enumThrows, now, monitors, lastUpdate, enumCalls,
                  syncEnabled, transitionInProgress, calls, microtasks, timers,
                  callerActive, lastGet, lastSet, lastNative, shadow, lastSync, ramp,
                  counters >>

\* RealMonitor::SetBrightness(value) on an external monitor with
\* m_supportsDDC: the value is clamped to m_minBrightness..m_maxBrightness
SetExternalBrightnessDDC(value) ==
  /\ ddc.pc = "idle"
  /\ ddc' = [ddc EXCEPT !.op = "set", !.pc = "count", !.brightness = -1,
                        !.success = FALSE, !.obtained = 0,
                        !.arg = Max(RealMinBrightness, Min(RealMaxBrightness, value))]
  /\ UNCHANGED << addon, g_mockMode, g_monitorCache, g_lastCacheUpdate, initCount,
                  outputs, hw, doubleFails, enumThrows, now, monitors, lastUpdate, enumCalls,
                  syncEnabled, transitionInProgress, calls, microtasks, timers,
                  callerActive, lastGet, lastSet, lastNative, shadow, lastSync, ramp,
                  counters >>

\* if (!GetNumberOfPhysicalMonitorsFromHMONITOR(...)) return; if (n == 0) return
GetNumberOfPhysicalMonitorsFromHMONITOR ==
  /\ ddc.pc = "count"
  /\ ddc' = IF ddc.mon.numOk /\ ddc.mon.num > 0
            THEN [ddc EXCEPT !.pc = "handles"]
            ELSE ReturnDDC(ddc)
  /\ UNCHANGED << addon, g_mockMode, g_monitorCache, g_lastCacheUpdate, initCount,
                  outputs, hw, doubleFails, enumThrows, now, monitors, lastUpdate, enumCalls,
                  syncEnabled, transitionInProgress, calls, microtasks, timers,
                  callerActive, lastGet, lastSet, lastNative, shadow, lastSync, ramp,
                  counters >>

\* if (!GetPhysicalMonitorsFromHMONITOR(...)) return
GetPhysicalMonitorsFromHMONITOR ==
  /\ ddc.pc = "handles"
  /\ ddc' = IF ddc.mon.handlesOk
            THEN [ddc EXCEPT !.pc = "high", !.open = ddc.open + ddc.mon.num,
                             !.obtained = ddc.mon.num]
            ELSE ReturnDDC(ddc)
  /\ UNCHANGED << addon, g_mockMode, g_monitorCache, g_lastCacheUpdate, initCount,
                  outputs, hw, doubleFails, enumThrows, now, monitors, lastUpdate, enumCalls,
                  syncEnabled, transitionInProgress, calls, microtasks, timers,
                  callerActive, lastGet, lastSet, lastNative, shadow, lastSync, ramp,
                  counters >>

\* GetMonitorBrightness / SetMonitorBrightness on physicalMonitors[0]
HighLevel ==
  /\ ddc.pc = "high"
  /\ ddc' = IF ddc.op = "get"
            THEN IF ddc.mon.high.ok
                 THEN [ddc EXCEPT !.brightness = ddc.mon.high.cur, !.pc = "destroy"]
                 ELSE [ddc EXCEPT !.pc = "low"]
            ELSE IF ddc.mon.setHigh
                 THEN [ddc EXCEPT !.success = TRUE, !.pc = "destroy",
                                  !.mon.high.cur = ddc.arg]
                 ELSE [ddc EXCEPT !.pc = "low"]
  /\ UNCHANGED << addon, g_mockMode, g_monitorCache, g_lastCacheUpdate, initCount,
                  outputs, hw, doubleFails, enumThrows, now, monitors, lastUpdate, enumCalls,
                  syncEnabled, transitionInProgress, calls, microtasks, timers,
                  callerActive, lastGet, lastSet, lastNative, shadow, lastSync, ramp,
                  counters >>

\* GetVCPFeatureAndVCPFeatureReply / SetVCPFeature for feature code 0x10
LowLevel ==
  /\ ddc.pc = "low"
  /\ ddc' = IF ddc.op = "get"
            THEN IF ddc.mon.low.ok /\ ddc.mon.low.max > 0
                 THEN [ddc EXCEPT !.brightness = Percentage(ddc.mon.low.cur, ddc.mon.low.max),
                                  !.pc = "destroy"]
                 ELSE [ddc EXCEPT !.pc = "destroy"]
            ELSE IF ddc.mon.setLow
                 THEN [ddc EXCEPT !.success = TRUE, !.pc = "destroy",
                                  !.mon.low.cur = ddc.arg]
                 ELSE [ddc EXCEPT !.pc = "destroy"]
  /\ UNCHANGED << addon, g_mockMode, g_monitorCache, g_lastCacheUpdate, initCount,
                  outputs, hw, doubleFails, enumThrows, now, monitors, lastUpdate, enumCalls,
                  syncEnabled, transitionInProgress, calls, microtasks, timers,
                  callerActive, lastGet, lastSet, lastNative, shadow, lastSync, ramp,
                  counters >>

\* DestroyPhysicalMonitors(...); return brightness / return success
DestroyPhysicalMonitors ==
  /\ ddc.pc = "destroy"
  /\ ddc' = ReturnDDC([ddc EXCEPT !.open = ddc.open - Destroyed(ddc)])
  /\ UNCHANGED << addon, g_mockMode, g_monitorCache, g_lastCacheUpdate, initCount,
                  outputs, hw, doubleFails, enumThrows, now, monitors, lastUpdate, enumCalls,
                  syncEnabled, transitionInProgress, calls, microtasks, timers,
                  callerActive, lastGet, lastSet, lastNative, shadow, lastSync, ramp,
                  counters >>

DDC ==
  \/ GetExternalBrightnessDDC
  \/ \E value \in WriteValues : SetExternalBrightnessDDC(value)
  \/ GetNumberOfPhysicalMonitorsFromHMONITOR
  \/ GetPhysicalMonitorsFromHMONITOR
  \/ HighLevel
  \/ LowLevel
  \/ DestroyPhysicalMonitors
SpecDDC == InitDDC /\ [][DDC]_vars

(***************************************************************************)
(* Properties                                                              *)
(***************************************************************************)
\* the current value a monitor list reports for id (-1 when it has no such id)
CurrentOf(list, id) ==
  IF FindIdx(list, id) = 0 THEN -1 ELSE list[FindIdx(list, id)].current

\* a stepped transition that is executing: it holds the flag and has a write
\* or a sleep outstanding
Active(kid) == kid.started /\ kid.pc \in {"afterWrite", "sleep", "afterFinal"}

\* every write the body made failed
Failing(kid) == kid.writes > 0 /\ kid.okWrites = 0

AllWritesOk(kids) == \A k \in 1..Len(kids) : kids[k].okWrites = kids[k].writes

C2_OneTransitionPerMonitor ==
  /\ \A c1 \in 1..Len(calls), c2 \in 1..Len(calls) :
       \A k1 \in 1..Len(calls[c1].kids), k2 \in 1..Len(calls[c2].kids) :
         (/\ Active(calls[c1].kids[k1]) /\ Active(calls[c2].kids[k2])
          /\ calls[c1].kids[k1].id = calls[c2].kids[k2].id)
         => (c1 = c2 /\ k1 = k2)
  /\ \A c \in 1..Len(calls) : \A k \in 1..Len(calls[c].kids) :
       LET kid == calls[c].kids[k] IN
       /\ Active(kid) => transitionInProgress[kid.id]
       /\ kid.dropped =>
            /\ kid.writes = 0 /\ ~kid.started /\ kid.steps = 0
            /\ kid.pc \in {"afterTransition", "done"}
            /\ \A t \in 1..Len(timers) : timers[t] # <<c, k>>

\* C2 witness: a request was dropped for an id whose transition, started by
\* another call, is still executing.
C2_Witness ==
  \E c1 \in 1..Len(calls), c2 \in 1..Len(calls) :
    \E k1 \in 1..Len(calls[c1].kids), k2 \in 1..Len(calls[c2].kids) :
      /\ c1 # c2
      /\ Active(calls[c1].kids[k1])
      /\ calls[c2].kids[k2].dropped
      /\ calls[c2].kids[k2].pc = "done"
      /\ calls[c1].kids[k1].id = calls[c2].kids[k2].id
      /\ calls[c2].op = "master"

\* C3: when a setMasterBrightness(target, animated) call with target in
\* [0,100] that passed the sync test, was made while no other call was in
\* flight and was overlapped by no later request has returned, all its device
\* writes having succeeded, every monitor the manager knows has
\* min <= current <= max and current within 1 of min + (max - min) * target / 100.
C3_MasterReachesProportional ==
  \A c \in 1..Len(calls) :
    LET call == calls[c] IN
    (/\ call.op = "master" /\ call.pc = "done"
     /\ call.checked /\ call.syncAtCheck /\ call.quiet
     /\ call.target \in 0..100
     /\ AllWritesOk(call.kids))
    => \A i \in 1..Len(call.retMons) :
         LET m == call.retMons[i] IN
         /\ m.min <= m.current /\ m.current <= m.max
         /\ Abs(100 * m.current - (100 * m.min + (m.max - m.min) * call.target)) <= 100

\* C3 witness: an animated master call has returned after moving a monitor
\* whose range is narrower than [0,100] and another monitor in two steps.
C3_Witness ==
  \E c \in 1..Len(calls) :
    LET call == calls[c] IN
    /\ call.op = "master" /\ call.result = "ok" /\ call.quiet /\ call.animated
    /\ call.target \in 0..100
    /\ AllWritesOk(call.kids)
    /\ Len(call.kids) >= 2
    /\ call.retMons[1].max < 100
    /\ call.kids[1].steps >= 1 /\ call.kids[2].steps >= 2
    /\ call.retMons[1].current # call.kids[1].from

\* C5: a setMasterBrightness call that made its sync test while syncEnabled
\* was false (made directly, or through increaseBrightness or
\* decreaseBrightness) has started no per-monitor body: it has made no device
\* write and started no transition, and it returns without an error.
C5_NoWriteWhenSyncOff ==
  \A c \in 1..Len(calls) :
    (calls[c].checked /\ ~calls[c].syncAtCheck)
    => /\ calls[c].kids = << >>
       /\ calls[c].pc \in {"done", "return2"}
       /\ calls[c].result \in {"pending", "skipped", "ok"}

\* C5 witness: an animated master request made with sync disabled has returned.
C5_Witness ==
  \E c \in 1..Len(calls) :
    /\ calls[c].op = "master" /\ calls[c].animated
    /\ calls[c].checked /\ ~calls[c].syncAtCheck
    /\ calls[c].result = "skipped"
    /\ ~syncEnabled

\* C8 as stated: every monitor record the manager holds has
\* min <= current <= max.
C8_AsStated ==
  \A i \in 1..Len(monitors) :
    monitors[i].min <= monitors[i].current /\ monitors[i].current <= monitors[i].max

C10_FailureIsLocal ==
  \A c \in 1..Len(calls) :
    LET call == calls[c] IN
    (/\ call.op \in {"master", "increase", "decrease"} /\ call.pc = "done"
     /\ call.checked /\ call.syncAtCheck /\ call.quiet
     /\ \E k \in 1..Len(call.kids) : Failing(call.kids[k]))
    => /\ call.result = "ok"
       /\ \A i \in 1..Len(call.retMons) :
            (\A k \in 1..Len(call.kids) :
               call.kids[k].id = call.retMons[i].id
               => call.kids[k].okWrites = call.kids[k].writes)
            => call.retMons[i].current
                 = calculateProportionalBrightness(call.clamped, call.retMons[i])

\* C10 witness: an animated master call has returned; every write to one
\* monitor failed and another monitor was moved to its target.
C10_Witness ==
  \E c \in 1..Len(calls) :
    LET call == calls[c] IN
    /\ call.op = "master" /\ call.result = "ok" /\ call.quiet /\ call.animated
    /\ \E k1 \in 1..Len(call.kids), k2 \in 1..Len(call.kids) :
         /\ Failing(call.kids[k1])
         /\ call.kids[k2].writes >= 2
         /\ call.kids[k2].okWrites = call.kids[k2].writes
         /\ call.kids[k2].from # call.kids[k2].to
         /\ CurrentOf(call.retMons, call.kids[k2].id) = call.kids[k2].to

\* C4 as stated: in mock mode the brightness the addon reports for a mock
\* monitor is the value most recently written to it with success since the
\* last initialize, however much time has passed since the write.
C4_AsStated ==
  /\ (/\ g_mockMode /\ lastNative.op = "getBrightness" /\ ~lastNative.threw
      /\ lastNative.id \in MockIds
      /\ shadow[lastNative.id] >= 0)
     => lastNative.ret = shadow[lastNative.id]
  /\ (g_mockMode /\ lastNative.op = "getMonitors" /\ ~lastNative.threw)
     => \A i \in 1..Len(lastNative.ret) :
          (lastNative.ret[i].id \in MockIds /\ shadow[lastNative.ret[i].id] >= 0)
          => lastNative.ret[i].current = shadow[lastNative.ret[i].id]

\* C6: a getMonitors(forceRefresh) request calls the addon's enumeration
\* exactly once when forceRefresh is true, the cached list is empty, or the
\* cache is 500 ms old or older; otherwise it calls the addon not at all and
\* returns the cached list, which it leaves unchanged.
C6_EnumeratesIffStale ==
  lastGet.valid =>
    LET stale == lastGet.force \/ lastGet.wasEmpty \/ lastGet.age >= 500 IN
    /\ stale => lastGet.after = lastGet.before + 1
    /\ ~stale => (lastGet.after = lastGet.before /\ lastGet.same)

\* C6 witness: a request without forceRefresh was answered from a non-empty
\* cache younger than 500 ms, after an earlier request had enumerated.
C6_Witness ==
  /\ lastGet.valid /\ ~lastGet.force /\ ~lastGet.wasEmpty
  /\ lastGet.age > 0 /\ lastGet.age < 500
  /\ lastGet.after = lastGet.before /\ lastGet.same
  /\ enumCalls >= 1

\* C7: after every native call, each device the native cache holds was
\* created since the last initialize and by the factory of the current mode;
\* so a call that follows initialize never reads or writes a device created
\* before it, however fresh the cache was when initialize ran.
C7_DevicesPostdateInitialize ==
  \A i \in 1..Len(g_monitorCache) :
    /\ g_monitorCache[i].epoch = initCount
    /\ g_monitorCache[i].mock = g_mockMode

\* C7 witness: initialize switched a freshly constructed addon into mock mode
\* and, with no time passed, a write to a mock monitor has succeeded.
C7_Witness ==
  /\ counters.inits >= 1 /\ counters.ticks = 0
  /\ g_mockMode
  /\ lastNative.op = "setBrightness" /\ ~lastNative.threw /\ lastNative.ret = TRUE
  /\ lastNative.id \in MockIds
  /\ Len(g_monitorCache) > 0
  /\ g_lastCacheUpdate = now

\* C11 as stated: for an id that matches no device of the addon, getBrightness
\* returns -1 and setBrightness returns false, and neither call raises an
\* exception.
C11_AsStated ==
  (/\ lastNative.op \in {"getBrightness", "setBrightness"}
   /\ FindIdx(g_monitorCache, lastNative.id) = 0)
  => /\ ~lastNative.threw
     /\ lastNative.op = "getBrightness" => lastNative.ret = -1
     /\ lastNative.op = "setBrightness" => lastNative.ret = FALSE

\* C12: a setMonitorBrightness(id, target, animated) call whose read of the
\* monitor's current brightness failed has started no per-monitor body (it has
\* made no device write and started no transition), the flag of its id is not
\* set, no write was ever attempted for its id, and once it has returned its
\* result is false.
C12_UnreadableReturnsFalse ==
  \A c \in 1..Len(calls) :
    (calls[c].op = "monitor" /\ calls[c].threw)
    => /\ calls[c].kids = << >>
       /\ ~transitionInProgress[calls[c].id]
       /\ ~(lastSet.valid /\ lastSet.id = calls[c].id)
       /\ calls[c].pc \in {"afterGet", "done"}
       /\ calls[c].pc = "done" => calls[c].result = "false"

\* C12 witness: an animated request for an id no monitor carries has returned
\* false.
C12_Witness ==
  \E c \in 1..Len(calls) :
    /\ calls[c].op = "monitor" /\ calls[c].animated
    /\ calls[c].id = UnknownId
    /\ calls[c].threw
    /\ calls[c].result = "false"

\* C13 as stated: every external real monitor the factory created as
\* controllable was created while the live brightness probe of its output
\* succeeded.
C13_AsStated ==
  \A i \in 1..Len(g_monitorCache) :
    (/\ ~g_monitorCache[i].mock
     /\ g_monitorCache[i].type = "external"
     /\ IsControllable(g_monitorCache[i]))
    => g_monitorCache[i].probed

\* C14 as stated: the monitors one getMonitors call of the addon returns have
\* pairwise distinct ids.
C14_AsStated ==
  (lastNative.op = "getMonitors" /\ ~lastNative.threw)
  => \A i \in 1..Len(lastNative.ret), j \in 1..Len(lastNative.ret) :
       i # j => lastNative.ret[i].id # lastNative.ret[j].id

\* C15: on an event loop that keeps running, whenever in-progress flags are
\* set there comes a moment at which every one of them has been cleared (in
\* every behaviour the model follows to its end), whether the transitions'
\* writes succeed or fail; and a
\* transition that has started and has left its step loop has made every one
\* of its writes, one per step and the pinning write, so nothing cut it short.
C15_TransitionsComplete ==
  /\ (\E id \in AllIds : transitionInProgress[id])
       ~> ((\A id \in AllIds : ~transitionInProgress[id]) \/ Truncated)
  /\ [](\A c \in 1..Len(calls) : \A k \in 1..Len(calls[c].kids) :
          LET kid == calls[c].kids[k] IN
          (kid.started /\ kid.steps >= 1 /\ kid.pc \in {"afterTransition", "done"})
          => (kid.writes = kid.steps + 1 /\ ~Active(kid)))

\* C15 witness: a transition of two steps whose writes all failed has cleared
\* its flag and returned.
C15_Witness ==
  \E c \in 1..Len(calls) : \E k \in 1..Len(calls[c].kids) :
    LET kid == calls[c].kids[k] IN
    /\ kid.started /\ kid.steps >= 2
    /\ kid.okWrites = 0 /\ kid.writes = kid.steps + 1
    /\ kid.pc = "done"
    /\ ~transitionInProgress[kid.id]

\* C16: when the addon's enumeration throws during a getMonitors request of
\* the MonitorManager, the request fails with an error (no list is returned)
\* and the manager's cached list and its timestamp are what they were before
\* the request.
C16_FailedEnumerationKeepsCache ==
  (lastGet.valid /\ lastGet.faulty /\ lastGet.after # lastGet.before)
  => (lastGet.threw /\ lastGet.kept)

\* C16 witness: a forced refresh failed while the manager held a non-empty
\* list, which it still holds with its old timestamp.
C16_Witness ==
  /\ lastGet.valid /\ lastGet.faulty /\ lastGet.force /\ lastGet.threw
  /\ ~lastGet.wasEmpty
  /\ Len(monitors) > 0
  /\ lastUpdate < now

(***************************************************************************)
(* C17: a simulated device accepts every integer: SetBrightness(v) returns *)
(* true, also for values far outside the range such as -999999 and 999999, *)
(* and the GetBrightness that directly follows returns min(100, max(0, v)).*)
(***************************************************************************)
C17_SimulatedWriteClamps ==
  /\ lastNative.op = "MockMonitor::SetBrightness" => lastNative.ret = TRUE
  /\ (lastNative.op = "MockMonitor::GetBrightness" /\ lastNative.follows)
     => lastNative.ret = Min(100, Max(0, lastNative.arg))

C17_Witness ==
  /\ lastNative.op = "MockMonitor::GetBrightness" /\ lastNative.follows
  /\ lastNative.arg = 999999
  /\ lastNative.ret = 100

(***************************************************************************)
(* C18: writing is idempotent. When the addon's setBrightness(id, v) is    *)
(* called twice in a row with the same v in 0..100 for a known device that *)
(* accepts writes, both calls return true and the device reads v after.    *)
(***************************************************************************)
C18_RepeatedWriteIdempotent ==
  (/\ lastNative.op = "setBrightness"
   /\ lastNative.arg \in 0..100
   /\ lastNative.earlier # "none" /\ lastNative.answers)
  => /\ ~lastNative.threw
     /\ lastNative.earlier = "true"
     /\ lastNative.ret = TRUE
     /\ lastNative.current = lastNative.arg

C18_Witness ==
  /\ lastNative.op = "setBrightness"
  /\ lastNative.arg = 30
  /\ lastNative.answers
  /\ lastNative.earlier = "true" /\ lastNative.ret = TRUE
  /\ lastNative.current = 30

C20_AsStated ==
  (g_mockMode /\ lastNative.built # << >>)
  => [i \in 1..Len(lastNative.built) |-> lastNative.built[i].id]
       = << "sim_internal_0", "sim_external_0", "sim_external_1" >>

(***************************************************************************)
(* C20, amended: the three simulated devices carry, in order, the ids      *)
(* mock_internal_0, mock_external_0 and mock_external_1, and a listing     *)
(* made from the enumeration shows these ids in this order.                *)
(***************************************************************************)
C20_SimulatedIds ==
  (g_mockMode /\ lastNative.built # << >>)
  => /\ [i \in 1..Len(lastNative.built) |-> lastNative.built[i].id]
          = << "mock_internal_0", "mock_external_0", "mock_external_1" >>
     /\ lastNative.op = "getMonitors"
        => [i \in 1..Len(lastNative.ret) |-> lastNative.ret[i].id]
             = << "mock_internal_0", "mock_external_0", "mock_external_1" >>

\* a later enumeration in simulated mode, after the cache has expired
C20_Witness ==
  /\ g_mockMode /\ lastNative.built # << >>
  /\ lastNative.op = "getMonitors"
  /\ g_lastCacheUpdate > StartTime
  /\ lastNative.ret[3].id = "mock_external_1"

(***************************************************************************)
(* C21: when a setMasterBrightness call that passed the sync test, was     *)
(* made while no other call was in flight and was overlapped by no later   *)
(* request has returned, all its writes having succeeded, then every       *)
(* device stands exactly at its min if the target was -999999 and exactly  *)
(* at its max if the target was 999999, whatever the device's bounds.      *)
(***************************************************************************)
C21_ExtremesReachBounds ==
  \A c \in 1..Len(calls) :
    LET call == calls[c] IN
    (/\ call.op = "master" /\ call.pc = "done"
     /\ call.checked /\ call.syncAtCheck /\ call.quiet
     /\ AllWritesOk(call.kids))
    => \A i \in 1..Len(call.retMons) :
         /\ call.target = -999999 => call.retMons[i].current = call.retMons[i].min
         /\ call.target = 999999 => call.retMons[i].current = call.retMons[i].max

\* C21 witness: an animated call with target 999999 has returned after moving
\* a device with bounds 45..49 up to 49 in steps and another device to its max
C21_Witness ==
  \E c \in 1..Len(calls) :
    LET call == calls[c] IN
    /\ call.op = "master" /\ call.result = "ok" /\ call.quiet /\ call.animated
    /\ call.target = 999999
    /\ Len(call.kids) = 2 /\ call.kids[1].steps >= 1 /\ call.kids[1].writes >= 2
    /\ call.retMons[1].min = 45 /\ call.retMons[1].max = 49
    /\ call.retMons[1].current = 49
    /\ call.retMons[2].current = call.retMons[2].max

(***************************************************************************)
(* C22: increaseBrightness(step) and decreaseBrightness(step) act as       *)
(* setMasterBrightness(t, animated = true) with t the mean of the current  *)
(* values of all known monitors plus (minus) step, clamped to 0..100: the  *)
(* call makes the sync test of setMasterBrightness and, with sync off,     *)
(* writes nothing; with sync on its target is that t (rounded as           *)
(* setMasterBrightness rounds) and every per-monitor body is a stepped     *)
(* transition towards the proportional value for t.  With no known monitor *)
(* the call writes nothing and returns without an error.                   *)
(***************************************************************************)
C22_StepIsMasterOfMean ==
  \A c \in 1..Len(calls) :
    LET call == calls[c] IN
    (call.op \in {"increase", "decrease"} /\ call.pc # "afterList" /\ ~call.threw)
    => /\ call.count > 0 =>
            /\ call.checked /\ call.animated
            /\ call.syncAtCheck =>
                 call.clamped
                   = Max(0, Min(100, RoundHalfUp(call.sum + call.target * call.count,
                                                 call.count)))
            /\ ~call.syncAtCheck => call.kids = << >>
            /\ \A k \in 1..Len(call.kids) :
                 /\ call.kids[k].started \/ call.kids[k].dropped
                 /\ \A i \in 1..Len(call.retMons) :
                      (call.pc = "done" /\ call.retMons[i].id = call.kids[k].id)
                      => call.kids[k].to
                           = calculateProportionalBrightness(call.clamped, call.retMons[i])
       /\ call.count = 0 =>
            /\ call.kids = << >> /\ ~call.checked
            /\ call.pc = "done" /\ call.result = "ok"

\* C22 witness: an increase over two monitors with different current values
\* (mean 43.5, new master value 47) has moved both monitors in steps
C22_Witness ==
  \E c \in 1..Len(calls) :
    LET call == calls[c] IN
    /\ call.op = "increase" /\ call.result = "ok"
    /\ call.count = 2 /\ call.sum = 87 /\ call.clamped = 47
    /\ Len(call.kids) = 2
    /\ call.kids[1].steps >= 1 /\ call.kids[2].steps >= 2
    /\ AllWritesOk(call.kids)

(***************************************************************************)
(* C23: toggleSync returns the new sync state, which is the negation of    *)
(* the state it found, so a second toggle directly after a first brings    *)
(* back the state the first one found; and a step that changes the sync    *)
(* state (toggleSync or setSyncEnabled) reads no device, writes to no      *)
(* device and enumerates nothing.                                          *)
(***************************************************************************)
C23_ToggleNegatesWithoutIO ==
  /\ [](lastSync.op = "toggle"
        => lastSync.ret = ~lastSync.before /\ lastSync.twice # "changed")
  /\ [][(syncEnabled' # syncEnabled \/ lastSync' # lastSync)
        => /\ lastSync'.op = "toggle" /\ lastSync' # lastSync
                => syncEnabled' = lastSync'.ret
           /\ UNCHANGED << g_monitorCache, g_lastCacheUpdate, hw, monitors, lastUpdate,
                           enumCalls, lastGet, lastSet, transitionInProgress, calls,
                           microtasks, timers >>]_vars

\* C23 witness: two toggle requests in a row while a transition is running:
\* the second has answered true and brought sync back on
C23_Witness ==
  /\ lastSync.op = "toggle" /\ lastSync.twice = "restored"
  /\ lastSync.ret /\ syncEnabled
  /\ timers # << >>

\* the device object of the last direct call
LastDevice == g_monitorCache[FindIdx(g_monitorCache, lastNative.id)]

C25_NonControllableRefusesWrites ==
  (lastNative.op = "RealMonitor::SetBrightness" /\ ~IsControllable(LastDevice))
  => /\ lastNative.ret = FALSE
     /\ lastSet.devSame
     /\ lastNative.current = shadow[lastNative.id]
     /\ lastNative.current = RealDefaultBrightness

\* C25 witness: a write of 37 to an external monitor without DDC support
\* whose output answers has been refused
C25_Witness ==
  /\ lastNative.op = "RealMonitor::SetBrightness"
  /\ lastNative.id = "external_plain"
  /\ lastNative.arg = 37
  /\ hw[2].ok
  /\ lastNative.ret = FALSE

\* the call whose continuation the event loop runs in the next step that
\* changes a transition flag (0 when there is none)
ActorOf ==
  IF microtasks # << >> THEN Head(microtasks)[1]
  ELSE IF timers # << >> THEN Head(timers)[1] ELSE 0

RECURSIVE WritesOf(_, _)
WritesOf(kids, k) == IF k > Len(kids) THEN 0 ELSE kids[k].writes + WritesOf(kids, k + 1)

\* C26: a setMonitorBrightness(id, ...) request writes to device id only:
\* every write it makes and every transition it starts or has dropped is for
\* its own id, the device write of each of its steps reaches the addon under
\* that id, and no step of it changes the in-progress flag of another id,
\* with sync enabled or disabled.
C26_OnlyTheNamedDevice ==
  /\ [](\A c \in 1..Len(calls) :
         calls[c].op = "monitor" =>
           /\ Len(calls[c].kids) <= 1
           /\ \A k \in 1..Len(calls[c].kids) : calls[c].kids[k].id = calls[c].id)
  /\ [][/\ \A c \in 1..Len(calls) :
            (/\ Len(calls') = Len(calls) /\ calls[c].op = "monitor"
             /\ WritesOf(calls'[c].kids, 1) > WritesOf(calls[c].kids, 1))
            => (lastSet'.valid /\ lastSet'.id = calls[c].id)
        /\ (/\ transitionInProgress' # transitionInProgress
            /\ ActorOf > 0 /\ calls[ActorOf].op = "monitor")
           => \A id \in AllIds :
                id # calls[ActorOf].id => transitionInProgress'[id] = transitionInProgress[id]
       ]_vars

\* C26 witness: with sync enabled and several monitors known, a
\* setMonitorBrightness request has returned true after writing to its
\* device, while a transition on another device is in progress.
C26_Witness ==
  \E c \in 1..Len(calls) :
    /\ calls[c].op = "monitor" /\ calls[c].pc = "done" /\ calls[c].result = "true"
    /\ syncEnabled /\ Len(monitors) >= 2
    /\ WritesOf(calls[c].kids, 1) >= 2
    /\ ~transitionInProgress[calls[c].id]
    /\ \E id \in AllIds : id # calls[c].id /\ transitionInProgress[id]

\* C27 as stated: a setMasterBrightness(target, animated = true) call that
\* found sync enabled, was overlapped by no other request and has returned
\* has made exactly one device write for each monitor the manager knew.
C27_AsStated ==
  \A c \in 1..Len(calls) :
    LET call == calls[c] IN
    (/\ call.op = "master" /\ call.animated /\ call.syncAtCheck
     /\ call.pc = "done" /\ call.result = "ok" /\ call.quiet)
    => \A k \in 1..Len(call.kids) : call.kids[k].writes = 1

\* the final write of the transition kid k of call c is made in this step
PinsNow(c, k) ==
  /\ c <= Len(calls') /\ k <= Len(calls'[c].kids)
  /\ calls[c].kids[k].pc = "afterWrite"
  /\ calls'[c].kids[k].pc = "afterFinal"

C29_AsStated ==
  \A c \in 1..Len(calls) :
    LET call == calls[c] IN
    (call.op = "monitor" /\ call.pc = "done" /\ call.result = "true")
    => CurrentOf(call.retMons, call.id) = call.clamped

\* C30 as stated: a setMasterBrightness(target, animated = true) call that
\* has fanned out has either started its transition on every monitor it was
\* given or had it dropped on every one of them; it is never dropped on some
\* monitors and run on the others.
C30_AsStated ==
  \A c \in 1..Len(calls) :
    LET call == calls[c] IN
    (call.op = "master" /\ call.animated /\ Len(call.kids) > 0)
    => \/ \A k \in 1..Len(call.kids) : call.kids[k].dropped
       \/ \A k \in 1..Len(call.kids) : ~call.kids[k].dropped

\* how often the continuation <<c, k>> stands in the queue q
RECURSIVE Pending(_, _, _)
Pending(q, c, k) ==
  IF q = << >> THEN 0
  ELSE (IF Head(q) = <<c, k>> THEN 1 ELSE 0) + Pending(Tail(q), c, k)

\* C31: the writes of one stepped transition are strictly sequential.  A
\* transition that awaits a write has exactly one continuation queued and no
\* timer, one that sleeps has exactly one timer and no continuation, so no
\* two of its writes are outstanding at once; and a step in which it issues a
\* further write is either the firing of its own sleep timer, which was set
\* after the previous step's write had returned (a step write), or the
\* resumption after its last step's write has returned (the final write).
C31_WritesStrictlySequential ==
  /\ [](\A c \in 1..Len(calls) : \A k \in 1..Len(calls[c].kids) :
         LET kid == calls[c].kids[k] IN
         kid.started =>
           /\ Pending(microtasks, c, k) + Pending(timers, c, k) <= 1
           /\ kid.pc \in {"afterWrite", "afterFinal"} =>
                (Pending(microtasks, c, k) = 1 /\ Pending(timers, c, k) = 0)
           /\ kid.pc = "sleep" =>
                (Pending(timers, c, k) = 1 /\ Pending(microtasks, c, k) = 0))
  /\ [][\A c \in 1..Len(calls) : \A k \in 1..Len(calls[c].kids) :
          (/\ c <= Len(calls') /\ k <= Len(calls'[c].kids)
           /\ calls[c].kids[k].started
           /\ calls'[c].kids[k].writes # calls[c].kids[k].writes)
          => /\ calls'[c].kids[k].writes = calls[c].kids[k].writes + 1
             /\ \/ /\ calls[c].kids[k].pc = "sleep"
                   /\ microtasks = << >> /\ Head(timers) = <<c, k>>
                   /\ calls'[c].kids[k].pc = "afterWrite"
                   /\ calls'[c].kids[k].i = calls[c].kids[k].i + 1
                \/ /\ calls[c].kids[k].pc = "afterWrite"
                   /\ calls[c].kids[k].i = calls[c].kids[k].steps - 1
                   /\ microtasks # << >> /\ Head(microtasks) = <<c, k>>
                   /\ calls'[c].kids[k].pc = "afterFinal"
       ]_vars

\* C31 witness: a transition of two steps awaits its final write, made after
\* its two step writes and the sleep between them.
C31_Witness ==
  \E c \in 1..Len(calls) : \E k \in 1..Len(calls[c].kids) :
    LET kid == calls[c].kids[k] IN
    /\ kid.started /\ kid.steps = 2 /\ kid.pc = "afterFinal" /\ kid.writes = 3
    /\ Pending(microtasks, c, k) = 1

\* C32 as stated: a write that does not belong to a stepped transition (the
\* write of a non-animated setMonitorBrightness or setMasterBrightness) is
\* never issued to a monitor whose in-progress flag is set.
C32_AsStated ==
  [][\A c \in 1..Len(calls) :
       c <= Len(calls') =>
         \A k \in 1..Len(calls'[c].kids) :
           (/\ k > Len(calls[c].kids)
            /\ calls'[c].kids[k].pc = "afterSet"
            /\ calls'[c].kids[k].writes = 1)
           => ~transitionInProgress[calls'[c].kids[k].id]
    ]_vars

\* C33 as stated: a device write that belongs to a master-brightness
\* operation (setMasterBrightness, increaseBrightness, decreaseBrightness) is
\* issued only while sync is enabled.
C33_AsStated ==
  [][\A c \in 1..Len(calls) :
       (/\ c <= Len(calls') /\ calls[c].op \in {"master", "increase", "decrease"}
        /\ WritesOf(calls'[c].kids, 1) > WritesOf(calls[c].kids, 1))
       => syncEnabled
    ]_vars

ListBefore(c) == IF calls[c].live THEN monitors ELSE calls[c].mons

C35_AsStated ==
  \A c \in 1..Len(calls) :
    LET call == calls[c] IN
    (/\ call.op \in {"increase", "decrease"}
     /\ call.pc = "done" /\ call.result = "ok" /\ call.quiet
     /\ call.syncAtCheck /\ AllWritesOk(call.kids))
    => \A k \in 1..Len(call.kids) :
         LET after == CurrentOf(call.retMons, call.kids[k].id) IN
         /\ call.op = "increase" => after >= call.kids[k].from
         /\ call.op = "decrease" => after <= call.kids[k].from

\* C36: for integer from and to in 0..100, every value a stepped transition
\* writes lies between from and to inclusive, no write moves away from `to`
\* (each is at least the previous one when to > from, at most the previous one
\* when to < from), and each write differs from the previous one, the first
\* from `from`, by at most STEP_SIZE = 2; the final write is `to`.
C36_WritesApproachTarget ==
  (ramp.on /\ ramp.k >= 1) =>
    /\ Min(ramp.from, ramp.to) <= ramp.value /\ ramp.value <= Max(ramp.from, ramp.to)
    /\ ramp.to > ramp.from => ramp.value >= ramp.prev
    /\ ramp.to < ramp.from => ramp.value <= ramp.prev
    /\ ramp.value - ramp.prev <= 2 /\ ramp.prev - ramp.value <= 2
    /\ ramp.pinned => ramp.value = ramp.to

\* C36 witness: from 11 to 30 in ten steps of 1.9: the fifth step, whose
\* running sum falls just below 20.5, has written 20 after 19.
C36_Witness ==
  /\ ramp.on /\ ramp.from = 11 /\ ramp.to = 30 /\ ramp.steps = 10
  /\ ramp.k = 5 /\ ramp.prev = 19 /\ ramp.value = 20

\* C37 as stated: every value RealMonitor::GetBrightness returns for an
\* external monitor lies in 0..100.
C37_AsStated ==
  (ddc.op = "get" /\ ddc.pc = "idle") => (0 <= ddc.result /\ ddc.result <= 100)

\* C38: every physical-monitor handle a DDC/CI read or write obtains is
\* released before the call returns: whenever no call is in progress the
\* process holds no handle, whether the high-level call succeeded, the call
\* fell back to the low-level path, or both paths failed; and a call holds
\* handles only between obtaining them and its clean-up.
C38_HandlesReleased ==
  /\ ddc.pc = "idle" => ddc.open = 0
  /\ ddc.pc \in {"count", "handles"} => ddc.open = 0
  /\ ddc.pc \in {"high", "low", "destroy"} =>
       (ddc.open = ddc.obtained /\ ddc.obtained = ddc.mon.num /\ ddc.mon.num > 0)

\* C38 witness: a read that obtained two handles and failed on both paths
\* has returned, and no handle is held.
C38_Witness ==
  /\ ddc.op = "get" /\ ddc.pc = "idle" /\ ddc.obtained = 2
  /\ ~ddc.mon.high.ok /\ ~ddc.mon.low.ok /\ ddc.brightness = -1
  /\ ddc.open = 0

\* C39 as stated: a brightness:set request that carries a monitorId field,
\* the empty string included, causes writes and transitions for the monitor
\* of that id only.
C39_AsStated ==
  \A c \in 1..Len(calls) :
    (calls[c].request.made /\ calls[c].request.has)
    => \A k \in 1..Len(calls[c].kids) :
         calls[c].kids[k].id = calls[c].request.monitorId
====
